---- MODULE Spec2Model ----
(***************************************************************************)
(* A model of the BLE acquisition core of the Renogy integration          *)
(* (custom_components/renogy/ble_client.py): the device health record,    *)
(* the device manager's grouping and polling loop, and the persistent     *)
(* connection's connect / read_registers state machine; and of the pure   *)
(* functions it rests on (ble_utils.py, ble_parsers.py).                  *)
(*                                                                         *)
(* Specifications:                                                         *)
(*   SpecHealth  one DeviceData record under free update / mark_failed     *)
(*   SpecInit    BLEDeviceManager.__init__ over arbitrary identity lists   *)
(*   Spec        BLEDeviceManager.poll_all cycles                          *)
(*   SpecConn    one PersistentBLEConnection with concurrent callers       *)
(*   SpecCodec   the Modbus frame builder and response validator           *)
(*   SpecParse   the register parsers and their dispatch (parse_response)  *)
(*   SpecPoll    one poll_device call over its register catalog            *)
(*   SpecLog     the rejection log of a DataValidator filled past its cap   *)
(*   SpecDetect  one async_detect_device_type call and its transport        *)
(*   SpecDetectLive  the same with the timers and the task's own steps fair *)
(*   SpecValidator  one DataValidator under a sequence of validate_data     *)
(*   SpecConnectAll  one BLEDeviceManager.connect_all call                 *)
(*   SpecConnLive    SpecConn with its timed waits fair                    *)
(*   SpecDisconnect  SpecConn with callers of disconnect()                 *)
(*   SpecValidatorLive  one DataValidator fed the same telemetry for ever  *)
(*   SpecCoordinator  the BLEUpdateCoordinator over updates of one manager *)
(***************************************************************************)
EXTENDS Integers, Sequences, FiniteSets, TLC

\* ------------------------------------------------------------------ bounds
\* Length of the operation sequences applied to one health record.
MaxOps == 6
\* Length of the identity lists given to the manager's constructor.
MaxDevices == 3
\* Number of poll_all cycles the scheduler runs.
MaxCycles == 3

\* Number of read_registers calls made on the connection.
MaxRequests == 2
\* Number of direct connect() calls made on the connection.
MaxConnectCalls == 1

\* ------------------------------------------------------- program constants
\* mark_failed: failures at which availability is withdrawn.
FAILURE_LIMIT == 3
\* connect: `for attempt in range(3)`.
CONNECT_ATTEMPTS == 3
\* read_registers: `len(response) >= 5`.
MIN_RESPONSE_LEN == 5

\* ----------------------------------------------------------------- helpers
Range(s) == {s[i] : i \in DOMAIN s}

\* Python's None for string-valued slots.
None == "None"

\* A dict is a function; the empty dict is the function with empty domain.
EmptyDict == <<>>

\* Truthiness of a dict (`if data:`).
Truthy(d) == DOMAIN d # {}

\* dict.update(other): other's entries win.
DictUpdate(d, other) ==
    [k \in (DOMAIN d) \cup (DOMAIN other) |->
        IF k \in DOMAIN other THEN other[k] ELSE d[k]]

\* Telemetry field names and values used as inputs.
Fields == {"battery_voltage", "pv_power"}
FieldValues == {12, 13}
Telemetries == UNION {[S -> FieldValues] : S \in SUBSET Fields}

VARIABLES
    \* --- SpecHealth: one DeviceData and the operations applied to it
    rec,            \* the DeviceData record
    ops,            \* the operations applied so far, oldest first
    \* --- SpecInit / Spec: BLEDeviceManager
    device_configs, \* the identity list given to __init__
    constructed,    \* whether __init__ has run
    _connections,   \* insertion-ordered dict: sequence of [mac, device_configs]
    _device_data,   \* dict device_key -> DeviceData
    on_data_callback, \* whether a result callback is installed
    link_up,        \* mac -> connection.is_connected
    cycle,          \* number of poll_all cycles started; also the clock
    pa_pc,          \* position of the running poll_all
    pa_link,        \* index into _connections of the link in progress
    pa_dev,         \* index into that link's device_configs
    pa_data,        \* poll_all's local `data`
    results,        \* poll_all's local `results`
    outcome,        \* per device key: how this cycle accounted the device
    fail_run        \* per device key: consecutive cycles accounted as failed

VARIABLES
    \* --- Spec: what the poll_all cycles did, kept for the claims
    prev_outcome,   \* per device key: how the cycle before accounted it
    pa_connects     \* per mac: connection.connect() calls poll_all made in
                    \* this cycle

VARIABLES
    \* --- SpecConn: one PersistentBLEConnection, its callers, its transport
    client,             \* self.client: None or the BleakClient
    client_up,          \* self.client.is_connected
    notifying,          \* start_notify has subscribed the current session
    _connected,         \* self._connected
    _notify_char,       \* self._notify_char
    _write_char,        \* self._write_char
    _notification_data, \* self._notification_data: fragments in arrival order
    _notification_event, \* self._notification_event is set
    _lock,              \* self._lock: the task holding it, 0 when free
    _loop,              \* self._loop: None until the primitives are created
    task,               \* per task: position in read_registers / connect
    wire,               \* responses the device has sent, not yet notified
    next_req,           \* number of the next read_registers call
    connect_calls       \* direct connect() calls made so far

VARIABLES
    \* --- SpecCodec / SpecParse: one call of a pure function
    call,               \* the function called and its arguments
    ret                 \* what the call did: Pending, a return value, a raise

VARIABLES
    \* --- SpecPoll: one poll_device call
    pd_config,          \* the DeviceConfig polled
    pd_pc,              \* position: "idle", "read" (in the loop), "done"
    pd_registers,       \* poll_device's local `registers`
    pd_i,               \* index in `registers` of the group read next
    all_data,           \* poll_device's local `all_data`
    pd_ret,             \* what the call did: Pending, a return value, a raise
    pd_response,        \* poll_device's local `response`: the last read's
    reads,              \* the read_registers calls made, oldest first
    parses              \* per read made: what parse_response gave, or "skipped"

VARIABLES
    \* --- SpecValidator: one DataValidator and the validate_data calls on it
    dv_device_type,     \* self.device_type
    _limits,            \* self._limits
    _last_good_values,  \* self._last_good_values
    _rejection_log,     \* self._rejection_log
    dv_data,            \* the last call's argument, items in dict order
    dv_return,          \* the last call's return: validated data, rejections
    dv_calls,           \* the number of validate_data calls made
    dv_system_voltage,  \* the system_voltage the validator was made with
    rejected            \* every rejection made since the log was last
                        \* empty by construction or clearing, oldest first

VARIABLES
    \* --- SpecDetect: one async_detect_device_type call
    det_pc,             \* position: "start", the await it is at, "done"
    det_link,           \* the transient session: open (client.is_connected),
                        \* notifying (the subscription is set up)
    det_opened,         \* the session has been opened in this call
    det_bound,          \* the local notify_char has been assigned
    det_probe,          \* the probe under way, 0 before the first
    det_data,           \* response_data
    det_event,          \* notification_event is set
    det_sent,           \* the probes whose request was given to the
                        \* transport to write, in order
    det_outcomes,       \* per probe ended: its return value and validity
    det_expired,        \* the overall timeout has expired
    det_result,         \* the value being returned while `finally` runs
    det_ret,            \* what the call did: Pending, a return value, a raise
    det_notes           \* the number of notifications delivered

VARIABLES
    \* --- SpecConnectAll: one connect_all call of the manager
    ca_pc,              \* position: "idle", "connect", "sleep", "done"
    ca_link,            \* index in _connections of the loop's connection
    connected,          \* connect_all's local `connected`
    ca_calls,           \* per connect() call made, in order: the address of
                        \* its connection and what it returned
    ca_ret              \* what the call did: Pending, a return value

VARIABLES
    \* --- SpecCoordinator: the BLEUpdateCoordinator of one manager
    _data,              \* self._data: entry id -> device entry
    _validators,        \* self._validator._validators: key -> validator
    raw_results,        \* what poll_all did in the last update: Pending, a
                        \* return value, a raise
    co_return,          \* what the last update did: Pending, a return value,
                        \* a raise
    co_updates          \* the number of updates made

healthVars == <<rec, ops>>
connVars == <<client, client_up, notifying, _connected, _notify_char,
              _write_char, _notification_data, _notification_event, _lock,
              _loop, task, wire, next_req, connect_calls>>
mgrVars == <<device_configs, constructed, _connections, _device_data,
             on_data_callback, link_up, cycle, pa_pc, pa_link, pa_dev,
             pa_data, results, outcome, fail_run>>
pureVars == <<call, ret>>
pollVars == <<pd_config, pd_pc, pd_registers, pd_i, all_data, pd_ret,
              pd_response, reads, parses>>
validatorVars == <<dv_device_type, _limits, _last_good_values, _rejection_log,
                   dv_data, dv_return, dv_calls, dv_system_voltage, rejected>>
detectVars == <<det_pc, det_link, det_opened, det_bound, det_probe, det_data,
                det_event, det_sent, det_outcomes, det_expired, det_result,
                det_ret, det_notes>>
connectAllVars == <<ca_pc, ca_link, connected, ca_calls, ca_ret>>
cycleVars == <<prev_outcome, pa_connects>>
coordinatorVars == <<_data, _validators, raw_results, co_return, co_updates>>
vars == <<healthVars, mgrVars, connVars, pureVars, pollVars, validatorVars,
          detectVars, connectAllVars, cycleVars, coordinatorVars>>
\* What the actions of one component leave alone.
notHealthVars == <<mgrVars, connVars, pureVars, pollVars, validatorVars,
                   detectVars, connectAllVars, cycleVars,
        coordinatorVars>>
notMgrVars == <<healthVars, connVars, pureVars, pollVars, validatorVars,
                detectVars, connectAllVars, cycleVars,
        coordinatorVars>>
notConnVars == <<healthVars, mgrVars, pureVars, pollVars, validatorVars,
                 detectVars, connectAllVars, cycleVars,
        coordinatorVars>>
notPureVars == <<healthVars, mgrVars, connVars, pollVars, validatorVars,
                 detectVars, connectAllVars, cycleVars,
        coordinatorVars>>
notPollVars == <<healthVars, mgrVars, connVars, pureVars, validatorVars,
                 detectVars, connectAllVars, cycleVars,
        coordinatorVars>>
notValidatorVars == <<healthVars, mgrVars, connVars, pureVars, pollVars,
                      detectVars, connectAllVars, cycleVars,
        coordinatorVars>>
notDetectVars == <<healthVars, mgrVars, connVars, pureVars, pollVars,
                   validatorVars, connectAllVars, cycleVars,
        coordinatorVars>>
notConnectAllVars == <<healthVars, connVars, pureVars, pollVars,
                       validatorVars, detectVars, cycleVars,
        coordinatorVars>>
\* What the steps of poll_all that call connect() or begin a cycle leave alone.
notMgrCycleVars == <<healthVars, connVars, pureVars, pollVars, validatorVars,
                     detectVars, connectAllVars, coordinatorVars>>
notCoordinatorVars == <<healthVars, mgrVars, connVars, pureVars, pollVars,
                        validatorVars, detectVars, connectAllVars, cycleVars>>

\* ============================================================= DeviceData
\* DeviceData(config=config): the dataclass defaults.
DeviceData(config) ==
    [config |-> config, data |-> EmptyDict, last_update |-> 0,
     is_available |-> FALSE, consecutive_failures |-> 0]

\* DeviceData.update(new_data) at time t.
update(r, new_data, t) ==
    [r EXCEPT !.data = DictUpdate(@, new_data),
              !.last_update = t,
              !.is_available = TRUE,
              !.consecutive_failures = 0]

\* mark_failed withdrawing availability one failure later (`> 3`).
mark_failed_late(r) ==
    LET n == r.consecutive_failures + 1 IN
    [r EXCEPT !.consecutive_failures = n,
              !.is_available = IF n > FAILURE_LIMIT THEN FALSE ELSE @]

\* DeviceData.mark_failed().
mark_failed(r) ==
    LET n == r.consecutive_failures + 1 IN
    [r EXCEPT !.consecutive_failures = n,
              !.is_available = IF n >= FAILURE_LIMIT THEN FALSE ELSE @]

\* ================================================ PersistentBLEConnection
\* The callers of one connection: the polling task and a second caller
\* running concurrently with it.
Tasks == {1, 2}

\* read_registers' return value: None, or the bytes received.
NoneRet == [none |-> TRUE, bytes |-> <<>>]
BytesRet(b) == [none |-> FALSE, bytes |-> b]

\* A caller that is in neither read_registers nor connect.
IdleTask ==
    [pc |-> "idle", cpc |-> "none", attempts |-> 0, fails |-> 0,
     last_kind |-> "none", cret |-> "none", ret |-> NoneRet,
     exit |-> "none"]

\* PersistentBLEConnection.__init__.
ConnInit ==
    /\ client = None
    /\ client_up = FALSE
    /\ notifying = FALSE
    /\ _connected = FALSE
    /\ _notify_char = None
    /\ _write_char = None
    /\ _notification_data = <<>>
    /\ _notification_event = FALSE
    /\ _lock = 0
    /\ _loop = None
    /\ task = [t \in Tasks |-> IdleTask]
    /\ wire = <<>>
    /\ next_req = 1
    /\ connect_calls = 0

\* ========================================================= pure functions
\* None for integer-valued slots.
Absent == -1

\* A call that has not been evaluated yet.
Pending == [kind |-> "pending"]
\* `return v`.
Return(v) == [kind |-> "return", value |-> v]
\* An exception leaves the function.
Raise(e) == [kind |-> "raise", error |-> e]

NoCall == [fn |-> "none"]

\* No pure function is under evaluation.
PureIdle ==
    /\ call = NoCall
    /\ ret = Pending

\* No poll_device call is under way.
PollIdle ==
    /\ pd_config = [name |-> "none"]
    /\ pd_pc = "idle"
    /\ pd_registers = <<>>
    /\ pd_i = 0
    /\ all_data = EmptyDict
    /\ pd_ret = Pending
    /\ pd_response = NoneRet
    /\ reads = <<>>
    /\ parses = <<>>

\* No DataValidator has been made.
ValidatorIdle ==
    /\ dv_device_type = None
    /\ _limits = EmptyDict
    /\ _last_good_values = EmptyDict
    /\ _rejection_log = <<>>
    /\ dv_data = <<>>
    /\ dv_return = Pending
    /\ dv_calls = 0
    /\ dv_system_voltage = 0
    /\ rejected = <<>>

\* The transient session of the detector: closed.
LinkClosed == [open |-> FALSE, notifying |-> FALSE]

\* async_detect_device_type has been called and has done nothing yet.
DetectEntered ==
    /\ det_pc = "start"
    /\ det_link = LinkClosed
    /\ det_opened = FALSE
    /\ det_bound = FALSE
    /\ det_probe = 0
    /\ det_data = <<>>
    /\ det_event = FALSE
    /\ det_sent = <<>>
    /\ det_outcomes = <<>>
    /\ det_expired = FALSE
    /\ det_result = None
    /\ det_ret = Pending
    /\ det_notes = 0

\* No detection is asked for.
DetectIdle ==
    /\ det_pc = "idle"
    /\ det_link = LinkClosed
    /\ det_opened = FALSE
    /\ det_bound = FALSE
    /\ det_probe = 0
    /\ det_data = <<>>
    /\ det_event = FALSE
    /\ det_sent = <<>>
    /\ det_outcomes = <<>>
    /\ det_expired = FALSE
    /\ det_result = None
    /\ det_ret = Pending
    /\ det_notes = 0

\* No connect_all call is under way.
ConnectAllIdle ==
    /\ ca_pc = "idle"
    /\ ca_link = 0
    /\ connected = 0
    /\ ca_calls = <<>>
    /\ ca_ret = Pending

\* No coordinator update under way or made.
CoordinatorIdle ==
    /\ _data = EmptyDict
    /\ _validators = EmptyDict
    /\ raw_results = Pending
    /\ co_return = Pending
    /\ co_updates = 0

\* ------------------------------------------------------------- SpecHealth
TestConfig ==
    [name |-> "test", mac_address |-> "AA:BB", device_type |-> "controller",
     device_id |-> 255]

HealthInit ==
    /\ rec = DeviceData(TestConfig)
    /\ ops = <<>>

HealthUpdate ==
    /\ Len(ops) < MaxOps
    /\ \E d \in Telemetries :
          rec' = update(rec, d, Len(ops) + 1)
    /\ ops' = Append(ops, "update")
    /\ UNCHANGED notHealthVars

HealthMarkFailed ==
    /\ Len(ops) < MaxOps
    /\ rec' = mark_failed(rec)
    /\ ops' = Append(ops, "mark_failed")
    /\ UNCHANGED notHealthVars

\* Number of mark_failed operations since the last update (or since creation).
RECURSIVE TrailingFailures(_)
TrailingFailures(s) ==
    IF s = <<>> \/ s[Len(s)] # "mark_failed" THEN 0
    ELSE 1 + TrailingFailures(SubSeq(s, 1, Len(s) - 1))

\* ======================================================= BLEDeviceManager
\* str.upper() on the physical addresses used as inputs.
upper(mac) ==
    CASE mac = "mac1" -> "MAC1"
      [] mac = "Mac2" -> "MAC2"
      [] OTHER -> mac

DeviceConfig(name, mac, type, id) ==
    [name |-> name, mac_address |-> mac, device_type |-> type,
     device_id |-> id]

\* f"{mac}_{config.device_type}_{config.device_id}": the three parts, in order.
device_key(mac, config) == <<mac, config.device_type, config.device_id>>

\* The grouping loop keyed by the address as given, without upper().
RECURSIVE devices_by_mac_raw(_)
devices_by_mac_raw(cfgs) ==
    IF cfgs = <<>> THEN <<>>
    ELSE LET prev == devices_by_mac_raw(SubSeq(cfgs, 1, Len(cfgs) - 1))
             config == cfgs[Len(cfgs)]
             mac == config.mac_address
         IN  IF \E i \in DOMAIN prev : prev[i].mac = mac
             THEN [i \in DOMAIN prev |->
                     IF prev[i].mac = mac
                     THEN [prev[i] EXCEPT !.device_configs = Append(@, config)]
                     ELSE prev[i]]
             ELSE Append(prev, [mac |-> mac, device_configs |-> <<config>>])

\* The loop of __init__ that fills devices_by_mac, which keeps insertion order.
RECURSIVE devices_by_mac(_)
devices_by_mac(cfgs) ==
    IF cfgs = <<>> THEN <<>>
    ELSE LET prev == devices_by_mac(SubSeq(cfgs, 1, Len(cfgs) - 1))
             config == cfgs[Len(cfgs)]
             mac == upper(config.mac_address)
         IN  IF \E i \in DOMAIN prev : prev[i].mac = mac
             THEN [i \in DOMAIN prev |->
                     IF prev[i].mac = mac
                     THEN [prev[i] EXCEPT !.device_configs = Append(@, config)]
                     ELSE prev[i]]
             ELSE Append(prev, [mac |-> mac, device_configs |-> <<config>>])

\* The same loop's writes to self._device_data: a later identity with the
\* same key replaces the record of an earlier one.
RECURSIVE init_device_data(_)
init_device_data(cfgs) ==
    IF cfgs = <<>> THEN EmptyDict
    ELSE LET prev == init_device_data(SubSeq(cfgs, 1, Len(cfgs) - 1))
             config == cfgs[Len(cfgs)]
             key == device_key(upper(config.mac_address), config)
         IN  [k \in (DOMAIN prev) \cup {key} |->
                 IF k = key THEN DeviceData(config) ELSE prev[k]]

\* self._connections: one PersistentBLEConnection(mac, configs) per entry.
init_connections(cfgs) == devices_by_mac(cfgs)

ConnectionMacs(conns) == {conns[i].mac : i \in DOMAIN conns}

\* ---------------------------------------------------------------- SpecInit
ConfigMacs == {"mac1", "MAC1", "MAC2"}
ConfigTypes == {"controller", "battery"}
ConfigIds == {1, 255}
ConfigUniverse ==
    {DeviceConfig("dev", m, t, i) :
        m \in ConfigMacs, t \in ConfigTypes, i \in ConfigIds}

SeqsUpTo(S, n) == UNION {[1..k -> S] : k \in 0..n}

NoOutcome == [kind |-> "none", data |-> EmptyDict]

MgrIdle ==
    /\ cycle = 0
    /\ prev_outcome = EmptyDict
    /\ pa_connects = EmptyDict
    /\ pa_pc = "idle"
    /\ pa_link = 0
    /\ pa_dev = 0
    /\ pa_data = EmptyDict
    /\ results = EmptyDict

MgrUnbuilt ==
    /\ constructed = FALSE
    /\ _connections = <<>>
    /\ _device_data = EmptyDict
    /\ link_up = EmptyDict
    /\ outcome = EmptyDict
    /\ fail_run = EmptyDict
    /\ on_data_callback = FALSE
    /\ MgrIdle

InitInit ==
    /\ HealthInit
    /\ ConnInit
    /\ PollIdle
    /\ ValidatorIdle
    /\ DetectIdle
    /\ ConnectAllIdle
    /\ CoordinatorIdle
    /\ PureIdle
    /\ device_configs \in SeqsUpTo(ConfigUniverse, MaxDevices)
    /\ MgrUnbuilt

\* BLEDeviceManager.__init__(hass, device_configs, on_data_callback).
Construct ==
    /\ ~constructed
    /\ constructed' = TRUE
    /\ _connections' = init_connections(device_configs)
    /\ _device_data' = init_device_data(device_configs)
    /\ link_up' = [m \in ConnectionMacs(init_connections(device_configs)) |-> FALSE]
    /\ outcome' = [k \in DOMAIN init_device_data(device_configs) |-> NoOutcome]
    /\ fail_run' = [k \in DOMAIN init_device_data(device_configs) |-> 0]
    /\ \E cb \in BOOLEAN : on_data_callback' = cb
    /\ UNCHANGED <<device_configs, cycle, pa_pc, pa_link, pa_dev, pa_data,
                   results>>
    /\ UNCHANGED notMgrVars

\* -------------------------------------------------------------------- Spec
\* Identity lists with pairwise distinct device keys: a hub (two logical
\* devices behind one address, given in mixed case) and two links.
C1cfg == DeviceConfig("c1", "mac1", "controller", 1)
C2cfg == DeviceConfig("c2", "MAC1", "battery", 2)
C3cfg == DeviceConfig("c3", "MAC2", "inverter", 1)
ManagerLists == {<<C1cfg, C2cfg>>, <<C3cfg, C1cfg>>}

\* What poll_device tags a non-empty result with.
Tagged(data, config) ==
    DictUpdate(data,
        [t \in {"__device", "__mac_address", "__device_type"} |->
            CASE t = "__device" -> config.name
              [] t = "__mac_address" -> config.mac_address
              [] OTHER -> config.device_type])

\* The non-empty results poll_device returns for an identity.
PollData(config) ==
    {Tagged(d, config) :
        d \in {[f \in {"battery_voltage"} |-> 12], [f \in {"pv_power"} |-> 13]}}

MgrInit ==
    /\ HealthInit
    /\ ConnInit
    /\ PollIdle
    /\ ValidatorIdle
    /\ DetectIdle
    /\ ConnectAllIdle
    /\ CoordinatorIdle
    /\ PureIdle
    /\ device_configs \in ManagerLists
    /\ constructed = TRUE
    /\ _connections = init_connections(device_configs)
    /\ _device_data = init_device_data(device_configs)
    /\ link_up = [m \in ConnectionMacs(_connections) |-> FALSE]
    /\ outcome = [k \in DOMAIN _device_data |-> NoOutcome]
    /\ fail_run = [k \in DOMAIN _device_data |-> 0]
    /\ on_data_callback \in BOOLEAN
    /\ MgrIdle

\* The link and the identity poll_all is working on.
CurConn == _connections[pa_link]
CurConfig == CurConn.device_configs[pa_dev]
CurKey == device_key(CurConn.mac, CurConfig)

\* Keys of the logical devices of connection conn, as poll_all forms them.
ConnKeys(conn) ==
    {device_key(conn.mac, conn.device_configs[j]) : j \in DOMAIN conn.device_configs}

IsFailure(kind) == kind \in {"empty", "exception", "unreachable", "cb_raise"}

\* The cycle's account of device k: its kind, the data poll_device returned.
Account(k, kind, data) ==
    /\ outcome' = [outcome EXCEPT ![k] = [kind |-> kind, data |-> data]]
    /\ fail_run' = [fail_run EXCEPT ![k] = IF IsFailure(kind) THEN @ + 1
                                           ELSE IF kind = "ok" THEN 0 ELSE @]

\* `for mac, connection in self._connections.items()`: the next link, or return.
NextLink ==
    /\ pa_dev' = 1
    /\ IF pa_link < Len(_connections)
       THEN pa_link' = pa_link + 1 /\ pa_pc' = "link"
       ELSE pa_link' = pa_link /\ pa_pc' = "done"

\* `for config in connection.device_configs`: the next identity, or the next link.
NextDevice ==
    IF pa_dev < Len(CurConn.device_configs)
    THEN pa_dev' = pa_dev + 1 /\ pa_link' = pa_link /\ pa_pc' = "device"
    ELSE NextLink

\* poll_all is entered: results = {}.
PollAllStart ==
    /\ constructed
    /\ pa_pc \in {"idle", "done"}
    /\ cycle < MaxCycles
    /\ cycle' = cycle + 1
    /\ results' = EmptyDict
    /\ pa_data' = EmptyDict
    /\ outcome' = [k \in DOMAIN outcome |-> NoOutcome]
    /\ pa_link' = 1
    /\ pa_dev' = 1
    /\ pa_pc' = IF Len(_connections) = 0 THEN "done" ELSE "link"
    /\ UNCHANGED <<device_configs, constructed, _connections, _device_data,
                   on_data_callback, link_up, fail_run>>
    /\ prev_outcome' = [k \in DOMAIN outcome |-> outcome[k].kind]
    /\ pa_connects' = [m \in DOMAIN link_up |-> 0]
    /\ UNCHANGED notMgrCycleVars

\* `if not connection.is_connected` is false: on to the link's devices.
PollLinkConnected ==
    /\ pa_pc = "link"
    /\ link_up[CurConn.mac]
    /\ pa_pc' = "device"
    /\ pa_dev' = 1
    /\ UNCHANGED <<device_configs, constructed, _connections, _device_data,
                   on_data_callback, link_up, cycle, pa_link, pa_data, results,
                   outcome, fail_run>>
    /\ UNCHANGED notMgrVars

\* A link that is down and failed before is passed over without a connect().
PollLinkNotRetried ==
    /\ pa_pc = "link"
    /\ ~link_up[CurConn.mac]
    /\ \A k \in ConnKeys(CurConn) : fail_run[k] > 0
    /\ NextLink
    /\ UNCHANGED <<device_configs, constructed, _connections, _device_data,
                   on_data_callback, link_up, cycle, pa_data, results,
                   outcome, fail_run>>
    /\ UNCHANGED notMgrVars

\* The link is down and connection.connect() returns true.
PollLinkReconnected ==
    /\ pa_pc = "link"
    /\ ~link_up[CurConn.mac]
    /\ link_up' = [link_up EXCEPT ![CurConn.mac] = TRUE]
    /\ pa_pc' = "device"
    /\ pa_dev' = 1
    /\ UNCHANGED <<device_configs, constructed, _connections, _device_data,
                   on_data_callback, cycle, pa_link, pa_data, results,
                   outcome, fail_run>>
    /\ pa_connects' = [pa_connects EXCEPT ![CurConn.mac] = @ + 1]
    /\ UNCHANGED prev_outcome
    /\ UNCHANGED notMgrCycleVars

\* mark_failed applied once per entry of configs, in order, to data.
RECURSIVE MarkAllFailed(_, _, _)
MarkAllFailed(data, mac, configs) ==
    IF configs = <<>> THEN data
    ELSE LET key == device_key(mac, configs[1]) IN
         MarkAllFailed([data EXCEPT ![key] = mark_failed(@)], mac,
                       SubSeq(configs, 2, Len(configs)))

\* The same step leaving the loop instead of continuing it.
PollLinkUnreachableAbort ==
    /\ pa_pc = "link"
    /\ ~link_up[CurConn.mac]
    /\ _device_data' = MarkAllFailed(_device_data, CurConn.mac, CurConn.device_configs)
    /\ outcome' = [k \in DOMAIN outcome |->
                     IF k \in ConnKeys(CurConn)
                     THEN [kind |-> "unreachable", data |-> EmptyDict]
                     ELSE outcome[k]]
    /\ fail_run' = [k \in DOMAIN fail_run |->
                     IF k \in ConnKeys(CurConn) THEN fail_run[k] + 1
                     ELSE fail_run[k]]
    /\ pa_pc' = "done"
    /\ UNCHANGED <<device_configs, constructed, _connections,
                   on_data_callback, link_up, cycle, pa_link, pa_dev, pa_data,
                   results>>
    /\ pa_connects' = [pa_connects EXCEPT ![CurConn.mac] = @ + 1]
    /\ UNCHANGED prev_outcome
    /\ UNCHANGED notMgrCycleVars

\* The link is down and connection.connect() returns false: every identity of
\* the link is marked failed, and the loop continues with the next link.
PollLinkUnreachable ==
    /\ pa_pc = "link"
    /\ ~link_up[CurConn.mac]
    /\ _device_data' = MarkAllFailed(_device_data, CurConn.mac, CurConn.device_configs)
    /\ outcome' = [k \in DOMAIN outcome |->
                     IF k \in ConnKeys(CurConn)
                     THEN [kind |-> "unreachable", data |-> EmptyDict]
                     ELSE outcome[k]]
    /\ fail_run' = [k \in DOMAIN fail_run |->
                     IF k \in ConnKeys(CurConn) THEN fail_run[k] + 1
                     ELSE fail_run[k]]
    /\ NextLink
    /\ UNCHANGED <<device_configs, constructed, _connections,
                   on_data_callback, link_up, cycle, pa_data, results>>
    /\ pa_connects' = [pa_connects EXCEPT ![CurConn.mac] = @ + 1]
    /\ UNCHANGED prev_outcome
    /\ UNCHANGED notMgrCycleVars

\* poll_device returns non-empty data: the record is updated and the data
\* stored in results before the callback, if any, is invoked.
PollDeviceData ==
    /\ pa_pc = "device"
    /\ \E data \in PollData(CurConfig) :
          /\ _device_data' = [_device_data EXCEPT ![CurKey] = update(@, data, cycle)]
          /\ results' = DictUpdate(results, [k \in {CurKey} |-> data])
          /\ pa_data' = data
          /\ IF on_data_callback
             THEN /\ Account(CurKey, "pending", data)
                  /\ pa_pc' = "callback"
                  /\ UNCHANGED <<pa_link, pa_dev>>
             ELSE /\ Account(CurKey, "ok", data)
                  /\ NextDevice
    /\ link_up' = [link_up EXCEPT ![CurConn.mac] = TRUE]
    /\ UNCHANGED <<device_configs, constructed, _connections,
                   on_data_callback, cycle>>
    /\ UNCHANGED notMgrVars

\* The same step with the empty result stored in results all the same.
PollDeviceEmptyStored ==
    /\ pa_pc = "device"
    /\ _device_data' = [_device_data EXCEPT ![CurKey] = mark_failed(@)]
    /\ pa_data' = EmptyDict
    /\ results' = DictUpdate(results, [k \in {CurKey} |-> EmptyDict])
    /\ Account(CurKey, "empty", EmptyDict)
    /\ NextDevice
    /\ \E up \in BOOLEAN : link_up' = [link_up EXCEPT ![CurConn.mac] = up]
    /\ UNCHANGED <<device_configs, constructed, _connections,
                   on_data_callback, cycle>>
    /\ UNCHANGED notMgrVars

\* poll_device returns {}: every register group failed.
PollDeviceEmpty ==
    /\ pa_pc = "device"
    /\ _device_data' = [_device_data EXCEPT ![CurKey] = mark_failed(@)]
    /\ pa_data' = EmptyDict
    /\ Account(CurKey, "empty", EmptyDict)
    /\ NextDevice
    /\ \E up \in BOOLEAN : link_up' = [link_up EXCEPT ![CurConn.mac] = up]
    /\ UNCHANGED <<device_configs, constructed, _connections,
                   on_data_callback, cycle, results>>
    /\ UNCHANGED notMgrVars

\* poll_device raises: `except Exception` marks the device failed.
PollDeviceError ==
    /\ pa_pc = "device"
    /\ _device_data' = [_device_data EXCEPT ![CurKey] = mark_failed(@)]
    /\ Account(CurKey, "exception", EmptyDict)
    /\ NextDevice
    /\ \E up \in BOOLEAN : link_up' = [link_up EXCEPT ![CurConn.mac] = up]
    /\ UNCHANGED <<device_configs, constructed, _connections,
                   on_data_callback, cycle, pa_data, results>>
    /\ UNCHANGED notMgrVars

\* The result callback returns (or its awaitable completes).
PollCallbackReturns ==
    /\ pa_pc = "callback"
    /\ Account(CurKey, "ok", pa_data)
    /\ NextDevice
    /\ UNCHANGED <<device_configs, constructed, _connections, _device_data,
                   on_data_callback, link_up, cycle, pa_data, results>>
    /\ UNCHANGED notMgrVars

\* The same step without the `except Exception` around it.
PollCallbackPropagates ==
    /\ pa_pc = "callback"
    /\ Account(CurKey, "cb_raise", pa_data)
    /\ pa_pc' = "raised"
    /\ UNCHANGED <<device_configs, constructed, _connections, _device_data,
                   on_data_callback, link_up, cycle, pa_link, pa_dev, pa_data,
                   results>>
    /\ UNCHANGED notMgrVars

\* The result callback raises: `except Exception` marks the device failed.
PollCallbackRaises ==
    /\ pa_pc = "callback"
    /\ _device_data' = [_device_data EXCEPT ![CurKey] = mark_failed(@)]
    /\ Account(CurKey, "cb_raise", pa_data)
    /\ NextDevice
    /\ UNCHANGED <<device_configs, constructed, _connections,
                   on_data_callback, link_up, cycle, pa_data, results>>
    /\ UNCHANGED notMgrVars

\* The transport drops a link (PersistentBLEConnection._on_disconnect).
LinkDrop(mac) ==
    /\ constructed
    /\ link_up[mac]
    /\ link_up' = [link_up EXCEPT ![mac] = FALSE]
    /\ UNCHANGED <<device_configs, constructed, _connections, _device_data,
                   on_data_callback, cycle, pa_pc, pa_link, pa_dev, pa_data,
                   results, outcome, fail_run>>
    /\ UNCHANGED notMgrVars

HealthNext == HealthUpdate \/ HealthMarkFailed

MgrNext ==
    \/ PollAllStart
    \/ PollLinkConnected
    \/ PollLinkReconnected
    \/ PollLinkUnreachable
    \/ PollDeviceData
    \/ PollDeviceEmpty
    \/ PollDeviceError
    \/ PollCallbackReturns
    \/ PollCallbackRaises
    \/ \E mac \in DOMAIN link_up : LinkDrop(mac)

HealthSpecInit ==
    /\ HealthInit
    /\ ConnInit
    /\ PollIdle
    /\ ValidatorIdle
    /\ DetectIdle
    /\ ConnectAllIdle
    /\ CoordinatorIdle
    /\ PureIdle
    /\ device_configs = <<>>
    /\ MgrUnbuilt

SpecHealth == HealthSpecInit /\ [][HealthNext]_vars
SpecInit == InitInit /\ [][Construct]_vars
Spec == MgrInit /\ [][MgrNext]_vars

\* ================================================================= claims
\* C1: for a device health record, after any sequence of update and
\* mark_failed operations: availability is false whenever the last three or
\* more operations were all mark_failed; after an update the failure count is
\* 0 and availability is true; fewer than three failures since the last
\* update leave availability true.
C1_HealthAvailability ==
    /\ TrailingFailures(ops) >= 3 => ~rec.is_available
    /\ (ops # <<>> /\ ops[Len(ops)] = "update") =>
          (rec.consecutive_failures = 0 /\ rec.is_available)
    /\ ("update" \in Range(ops) /\ TrailingFailures(ops) < 3) => rec.is_available

\* A success followed by exactly three failures has withdrawn availability.
C1_Witness ==
    /\ "update" \in Range(ops)
    /\ TrailingFailures(ops) = 3
    /\ ~rec.is_available
    /\ rec.consecutive_failures = 3

\* The keys of all logical devices in the order poll_all visits them.
RECURSIVE PollOrderFrom(_)
PollOrderFrom(i) ==
    IF i > Len(_connections) THEN <<>>
    ELSE [j \in DOMAIN _connections[i].device_configs |->
             device_key(_connections[i].mac, _connections[i].device_configs[j])]
         \o PollOrderFrom(i + 1)
PollOrder == PollOrderFrom(1)

Health(k) == _device_data[k]

\* C2: a device accounted as failed in three consecutive poll_all cycles
\* (empty data, poll exception, unreachable link or callback exception) is
\* unavailable after the third cycle, and available again after the next
\* cycle whose poll succeeds.
C2_ThreeFailedCyclesUnavailable ==
    pa_pc = "done" =>
        \A k \in DOMAIN _device_data :
            /\ fail_run[k] >= 3 => ~Health(k).is_available
            /\ outcome[k].kind = "ok" => Health(k).is_available

\* The step in which the result callback raised for device k.
CallbackRaisedFor(k) ==
    /\ pa_pc = "callback"
    /\ CurKey = k
    /\ outcome'[k].kind = "cb_raise"

\* C3: when the result callback raises for a device, the exception does not
\* leave poll_all, that device's failure count is incremented, no other
\* device's health record changes, and the loop goes on with the next device
\* or link, so that every device has been dealt with when the cycle ends.
C3_CallbackExceptionContained ==
    /\ [][\A k \in DOMAIN _device_data : CallbackRaisedFor(k) =>
            /\ pa_pc' # "raised"
            /\ Health(k)' = [Health(k) EXCEPT !.consecutive_failures = @ + 1,
                    !.is_available = IF Health(k).consecutive_failures + 1 >= 3
                                     THEN FALSE ELSE @]
            /\ \A o \in DOMAIN _device_data \ {k} : Health(o)' = Health(o)
            /\ IF pa_dev < Len(CurConn.device_configs)
               THEN pa_pc' = "device" /\ pa_dev' = pa_dev + 1 /\ pa_link' = pa_link
               ELSE IF pa_link < Len(_connections)
                    THEN pa_pc' = "link" /\ pa_link' = pa_link + 1
                    ELSE pa_pc' = "done"]_vars
    /\ [](pa_pc = "done" => \A k \in DOMAIN _device_data : outcome[k].kind # "none")

\* A cycle has ended in which the callback raised for one device and a device
\* later in the polling order was polled all the same.
C3_Witness ==
    /\ pa_pc = "done"
    /\ \E a, b \in DOMAIN PollOrder :
          /\ a < b
          /\ outcome[PollOrder[a]].kind = "cb_raise"
          /\ Health(PollOrder[a]).consecutive_failures = 1
          /\ outcome[PollOrder[b]].kind \in {"ok", "empty", "exception", "cb_raise"}

\* The step in which the reconnect of the link in progress failed.
ReconnectFailed ==
    /\ pa_pc = "link"
    /\ \E k \in ConnKeys(CurConn) : outcome'[k].kind = "unreachable"

\* C4: when a link is down and its reconnect fails, every logical device of
\* that link is marked failed exactly once, none of them is polled in this
\* cycle, the health of the devices of other links does not change, nothing is
\* added to the results, and poll_all goes on with the next link.
C4_UnreachableLinkSkipped ==
    /\ [][ReconnectFailed =>
            /\ \A k \in ConnKeys(CurConn) :
                  /\ Health(k)' = [Health(k) EXCEPT
                        !.consecutive_failures = @ + 1,
                        !.is_available = IF Health(k).consecutive_failures + 1 >= 3
                                         THEN FALSE ELSE @]
                  /\ outcome'[k].kind = "unreachable"
            /\ \A o \in DOMAIN _device_data \ ConnKeys(CurConn) :
                  Health(o)' = Health(o) /\ outcome'[o] = outcome[o]
            /\ results' = results
            /\ IF pa_link < Len(_connections)
               THEN pa_pc' = "link" /\ pa_link' = pa_link + 1
               ELSE pa_pc' = "done"]_vars
    /\ [][\A k \in DOMAIN _device_data :
            (outcome[k].kind = "unreachable" /\ cycle' = cycle) =>
                (outcome'[k].kind = "unreachable" /\ Health(k)' = Health(k))]_vars

\* A cycle has ended in which the first link was unreachable and the device
\* of the second link was polled.
C4_Witness ==
    /\ pa_pc = "done"
    /\ Len(_connections) = 2
    /\ \A k \in ConnKeys(_connections[1]) : outcome[k].kind = "unreachable"
    /\ \E k \in ConnKeys(_connections[2]) : outcome[k].kind = "ok"

\* C5: the mapping poll_all returns has as keys exactly the devices whose
\* poll_device returned non-empty telemetry in this cycle, each mapped to that
\* telemetry; devices with empty data, a poll exception or an unreachable
\* link are absent.
C5_ResultsAreNonEmptyPolls ==
    pa_pc = "done" =>
        /\ DOMAIN results =
              {k \in DOMAIN _device_data : outcome[k].kind \in {"ok", "cb_raise"}}
        /\ \A k \in DOMAIN results :
              results[k] = outcome[k].data /\ Truthy(results[k])
        /\ \A k \in DOMAIN _device_data :
              outcome[k].kind \in {"empty", "exception", "unreachable"} =>
                  k \notin DOMAIN results

\* A cycle has ended with one device in the results and another, whose data
\* was empty, absent from them.
C5_Witness ==
    /\ pa_pc = "done"
    /\ \E k \in DOMAIN results : outcome[k].kind = "ok"
    /\ \E k \in DOMAIN _device_data :
          outcome[k].kind = "empty" /\ k \notin DOMAIN results

\* Physical addresses are compared without regard to case.
SameAddress(a, b) == upper(a) = upper(b)

RECURSIVE SumLen(_, _)
SumLen(conns, i) ==
    IF i > Len(conns) THEN 0
    ELSE Len(conns[i].device_configs) + SumLen(conns, i + 1)

\* C6: for any identity list there is exactly one connection per distinct
\* physical address (compared case-insensitively), every identity is in the
\* device list of exactly one connection, the one of its address, and there
\* is one health record per device key.
C6_OneConnectionPerAddress ==
    constructed =>
        /\ \A i, j \in DOMAIN _connections :
              i # j => ~SameAddress(_connections[i].mac, _connections[j].mac)
        /\ \A n \in DOMAIN device_configs :
              LET c == device_configs[n] IN
              /\ \E i \in DOMAIN _connections :
                    c \in Range(_connections[i].device_configs)
              /\ \A i \in DOMAIN _connections :
                    c \in Range(_connections[i].device_configs) =>
                        SameAddress(_connections[i].mac, c.mac_address)
        /\ \A i \in DOMAIN _connections :
              /\ _connections[i].device_configs # <<>>
              /\ Range(_connections[i].device_configs) \subseteq Range(device_configs)
        /\ SumLen(_connections, 1) = Len(device_configs)
        /\ DOMAIN _device_data =
              {device_key(upper(c.mac_address), c) : c \in Range(device_configs)}
        /\ \A k \in DOMAIN _device_data :
              device_key(upper(Health(k).config.mac_address), Health(k).config) = k

\* Three identities over two addresses, two of them behind one address that
\* is given once in lower and once in upper case.
C6_Witness ==
    /\ constructed
    /\ Len(device_configs) = 3
    /\ Len(_connections) = 2
    /\ \E i \in DOMAIN _connections :
          \E a, b \in Range(_connections[i].device_configs) :
              a.mac_address # b.mac_address

\* ============================================================== SpecConn
sessVars == <<client, client_up, notifying, _connected, _notify_char, _write_char>>
bufVars == <<_notification_data, _notification_event>>

\* The is_connected property.
is_connected == _connected /\ client # None /\ client_up

\* A notification fragment: its number of bytes, and whether it answers the
\* request now in flight (cur) or an earlier one.
Fragment(n) == [cur |-> TRUE, n |-> n]

\* What the device sends in answer to a request: nothing, one 7-byte frame,
\* or that frame in two fragments.
Responses == {<<>>, <<Fragment(7)>>, <<Fragment(4), Fragment(3)>>}

\* A new request is being made: what is still under way answers an earlier one.
Stale(w) == [i \in DOMAIN w |-> [w[i] EXCEPT !.cur = FALSE]]

RECURSIVE ByteLen(_)
ByteLen(b) == IF b = <<>> THEN 0 ELSE b[1].n + ByteLen(Tail(b))

\* read_registers returns val; `how` records the path taken.
Returned(r, val, how) ==
    [IdleTask EXCEPT !.pc = "done", !.ret = val, !.exit = how]

\* connect() is entered with the connection down: the attempt loop starts.
EnterConnect(r, caller) ==
    [r EXCEPT !.pc = caller, !.cpc = "attempt", !.attempts = 0, !.fails = 0,
              !.last_kind = "none", !.cret = "none"]

\* The loop end of `range(4)`: one iteration more.
LoopNextOneMore(r) ==
    IF r.attempts > CONNECT_ATTEMPTS
    THEN [r EXCEPT !.cpc = "returned", !.cret = "false"]
    ELSE [r EXCEPT !.cpc = "attempt"]

\* The end of one iteration of `for attempt in range(3)`: the next iteration,
\* or `return False` after the last.
LoopNext(r) ==
    IF r.attempts >= CONNECT_ATTEMPTS
    THEN [r EXCEPT !.cpc = "returned", !.cret = "false"]
    ELSE [r EXCEPT !.cpc = "attempt"]

\* An attempt failed: through `continue` (no cleanup), or through an except
\* clause, after which the session is closed if there is one.
AttemptFailed(r, kind, cleanup) ==
    LET f == [r EXCEPT !.fails = @ + 1, !.last_kind = kind] IN
    IF cleanup THEN [f EXCEPT !.cpc = "cleanup"] ELSE LoopNext(f)

\* read_registers, from clearing the buffer to the await of write_gatt_char.
ClearAndSend(t) ==
    /\ wire' = Stale(wire)
    /\ _notification_data' = <<>>
    /\ _notification_event' = FALSE
    /\ IF client = None
       THEN /\ _connected' = FALSE
            /\ task' = [task EXCEPT ![t] = Returned(@, NoneRet, "write_failed")]
            /\ _lock' = 0
       ELSE /\ _connected' = _connected
            /\ task' = [task EXCEPT ![t] = [IdleTask EXCEPT !.pc = "write"]]
            /\ _lock' = t

\* read_registers is called: the primitives exist, the lock is requested.
ReadBegin(t) ==
    /\ task[t].pc = "idle"
    /\ next_req <= MaxRequests
    /\ task' = [task EXCEPT ![t] =
                  [IdleTask EXCEPT !.pc = "acquire"]]
    /\ next_req' = next_req + 1
    /\ _loop' = "loop"
    /\ UNCHANGED <<sessVars, bufVars, _lock, wire, connect_calls>>
    /\ UNCHANGED notConnVars

\* The same step entered without waiting for the lock.
ReadAcquireUnlocked(t) ==
    /\ task[t].pc = "acquire"
    /\ IF is_connected
       THEN ClearAndSend(t)
       ELSE /\ task' = [task EXCEPT ![t] = EnterConnect(@, "connect")]
            /\ _lock' = t
            /\ UNCHANGED <<_connected, bufVars, wire>>
    /\ UNCHANGED <<client, client_up, notifying, _notify_char, _write_char,
                   _loop, next_req, connect_calls>>
    /\ UNCHANGED notConnVars

\* `async with self._lock`: the lock is free and taken; a connected link goes
\* on to send, a link that is down enters connect().
ReadAcquire(t) ==
    /\ task[t].pc = "acquire"
    /\ _lock = 0
    /\ IF is_connected
       THEN ClearAndSend(t)
       ELSE /\ task' = [task EXCEPT ![t] = EnterConnect(@, "connect")]
            /\ _lock' = t
            /\ UNCHANGED <<_connected, bufVars, wire>>
    /\ UNCHANGED <<client, client_up, notifying, _notify_char, _write_char,
                   _loop, next_req, connect_calls>>
    /\ UNCHANGED notConnVars

\* The same step sending the request whatever connect() returned.
ReadAfterConnectSendsAnyway(t) ==
    /\ task[t].pc = "connect"
    /\ task[t].cpc = "returned"
    /\ ClearAndSend(t)
    /\ UNCHANGED <<client, client_up, notifying, _notify_char, _write_char,
                   _loop, next_req, connect_calls>>
    /\ UNCHANGED notConnVars

\* The inline connect() has returned: None on false, else on to send.
ReadAfterConnect(t) ==
    /\ task[t].pc = "connect"
    /\ task[t].cpc = "returned"
    /\ IF task[t].cret = "false"
       THEN /\ task' = [task EXCEPT ![t] = Returned(@, NoneRet, "reconnect_failed")]
            /\ _lock' = 0
            /\ UNCHANGED <<_connected, bufVars, wire>>
       ELSE ClearAndSend(t)
    /\ UNCHANGED <<client, client_up, notifying, _notify_char, _write_char,
                   _loop, next_req, connect_calls>>
    /\ UNCHANGED notConnVars

\* connect() is called directly (as connect_all and poll_all do).
ConnectCall(t) ==
    /\ task[t].pc = "idle"
    /\ connect_calls < MaxConnectCalls
    /\ connect_calls' = connect_calls + 1
    /\ _loop' = "loop"
    /\ task' = [task EXCEPT ![t] =
                  IF is_connected
                  THEN [IdleTask EXCEPT !.pc = "xconnect", !.cpc = "returned",
                                        !.cret = "true"]
                  ELSE EnterConnect(IdleTask, "xconnect")]
    /\ UNCHANGED <<sessVars, bufVars, _lock, wire, next_req>>
    /\ UNCHANGED notConnVars

\* The direct connect() has returned to its caller.
ConnectCallReturn(t) ==
    /\ task[t].pc = "xconnect"
    /\ task[t].cpc = "returned"
    /\ task' = [task EXCEPT ![t] = IdleTask]
    /\ UNCHANGED <<sessVars, bufVars, _lock, _loop, wire, next_req, connect_calls>>
    /\ UNCHANGED notConnVars

\* read_registers has returned to its caller.
ReadReturn(t) ==
    /\ task[t].pc = "done"
    /\ task' = [task EXCEPT ![t] = IdleTask]
    /\ UNCHANGED <<sessVars, bufVars, _lock, _loop, wire, next_req, connect_calls>>
    /\ UNCHANGED notConnVars

\* One iteration of the attempt loop begins: the device is resolved and a new
\* BleakClient made, or the device is not found, or resolving raises.
ConnectAttempt(t) ==
    /\ task[t].cpc = "attempt"
    /\ LET r == [task[t] EXCEPT !.attempts = @ + 1] IN
       \/ /\ client' = "client"
          /\ client_up' = FALSE
          /\ notifying' = FALSE
          /\ wire' = <<>>
          /\ task' = [task EXCEPT ![t] = [r EXCEPT !.cpc = "opening"]]
       \/ /\ task' = [task EXCEPT ![t] = AttemptFailed(r, "not_found", FALSE)]
          /\ UNCHANGED <<client, client_up, notifying, wire>>
       \/ /\ task' = [task EXCEPT ![t] = AttemptFailed(r, "resolve_error", client # None)]
          /\ UNCHANGED <<client, client_up, notifying, wire>>
    /\ UNCHANGED <<_connected, _notify_char, _write_char, bufVars, _lock,
                   _loop, next_req, connect_calls>>
    /\ UNCHANGED notConnVars

\* `await self.client.connect()` completes: the session is up and its
\* characteristics are set (discovered or default); or it is not connected
\* (`continue`); or it raised.
ConnectOpen(t) ==
    /\ task[t].cpc = "opening"
    /\ \/ /\ client # None
          /\ client_up' = TRUE
          /\ \E c \in {"found", "default"} :
                _notify_char' = c /\ _write_char' = c
          /\ task' = [task EXCEPT ![t] = [@ EXCEPT !.cpc = "subscribing"]]
          /\ UNCHANGED <<client, notifying, _connected>>
       \/ /\ client # None
          /\ task' = [task EXCEPT ![t] = AttemptFailed(@, "not_connected", FALSE)]
          /\ UNCHANGED sessVars
       \/ /\ task' = [task EXCEPT ![t] = AttemptFailed(@, "open_error", client # None)]
          /\ UNCHANGED sessVars
    /\ UNCHANGED <<bufVars, _lock, _loop, wire, next_req, connect_calls>>
    /\ UNCHANGED notConnVars

\* `await self.client.start_notify(...)` completes: subscribed, and only then
\* self._connected = True and `return True`; or it raised.
ConnectSubscribe(t) ==
    /\ task[t].cpc = "subscribing"
    /\ \/ /\ client # None
          /\ client_up
          /\ notifying' = TRUE
          /\ _connected' = TRUE
          /\ task' = [task EXCEPT ![t] =
                        [@ EXCEPT !.cpc = "returned", !.cret = "true",
                                  !.last_kind = "ok"]]
       \/ /\ task' = [task EXCEPT ![t] = AttemptFailed(@, "subscribe_error", client # None)]
          /\ UNCHANGED <<notifying, _connected>>
    /\ UNCHANGED <<client, client_up, _notify_char, _write_char, bufVars,
                   _lock, _loop, wire, next_req, connect_calls>>
    /\ UNCHANGED notConnVars

\* After an except clause: the session is disconnected (errors swallowed) and
\* self.client = None; a session that was up reports the disconnect.
ConnectCleanup(t) ==
    /\ task[t].cpc = "cleanup"
    /\ client' = None
    /\ client_up' = FALSE
    /\ notifying' = FALSE
    /\ wire' = <<>>
    /\ _connected' = IF client_up THEN FALSE ELSE _connected
    /\ task' = [task EXCEPT ![t] = LoopNext(@)]
    /\ UNCHANGED <<_notify_char, _write_char, bufVars, _lock, _loop, next_req,
                   connect_calls>>
    /\ UNCHANGED notConnVars

\* The same step with a failed write that leaves the connected flag set.
ReadWriteKeepsConnected(t) ==
    /\ task[t].pc = "write"
    /\ \/ /\ client # None
          /\ client_up
          /\ \E resp \in Responses : wire' = wire \o resp
          /\ task' = [task EXCEPT ![t] = [@ EXCEPT !.pc = "wait"]]
          /\ UNCHANGED <<_connected, _lock>>
       \/ /\ task' = [task EXCEPT ![t] = Returned(@, NoneRet, "write_failed")]
          /\ _lock' = 0
          /\ UNCHANGED <<_connected, wire>>
    /\ UNCHANGED <<client, client_up, notifying, _notify_char, _write_char,
                   bufVars, _loop, next_req, connect_calls>>
    /\ UNCHANGED notConnVars

\* `await self.client.write_gatt_char(...)` completes: the frame is on its way
\* and the device answers, or the write raised.
ReadWrite(t) ==
    /\ task[t].pc = "write"
    /\ \/ /\ client # None
          /\ client_up
          /\ \E resp \in Responses : wire' = wire \o resp
          /\ task' = [task EXCEPT ![t] = [@ EXCEPT !.pc = "wait"]]
          /\ UNCHANGED <<_connected, _lock>>
       \/ /\ _connected' = FALSE
          /\ task' = [task EXCEPT ![t] = Returned(@, NoneRet, "write_failed")]
          /\ _lock' = 0
          /\ UNCHANGED wire
    /\ UNCHANGED <<client, client_up, notifying, _notify_char, _write_char,
                   bufVars, _loop, next_req, connect_calls>>
    /\ UNCHANGED notConnVars

\* The ready-signal is set: wait_for returns and the settle delay begins.
ReadWake(t) ==
    /\ task[t].pc = "wait"
    /\ _notification_event
    /\ task' = [task EXCEPT ![t] = [@ EXCEPT !.pc = "settle"]]
    /\ UNCHANGED <<sessVars, bufVars, _lock, _loop, wire, next_req, connect_calls>>
    /\ UNCHANGED notConnVars

\* The same step treating the timeout like a failed write.
ReadTimeoutDisconnects(t) ==
    /\ task[t].pc = "wait"
    /\ ~_notification_event
    /\ task' = [task EXCEPT ![t] = Returned(@, NoneRet, "timeout")]
    /\ _lock' = 0
    /\ _connected' = FALSE
    /\ UNCHANGED <<client, client_up, notifying, _notify_char, _write_char,
                   bufVars, _loop, wire, next_req, connect_calls>>
    /\ UNCHANGED notConnVars

\* NOTIFICATION_TIMEOUT expires with the ready-signal unset: return None.
ReadTimeout(t) ==
    /\ task[t].pc = "wait"
    /\ ~_notification_event
    /\ task' = [task EXCEPT ![t] = Returned(@, NoneRet, "timeout")]
    /\ _lock' = 0
    /\ UNCHANGED <<sessVars, bufVars, _loop, wire, next_req, connect_calls>>
    /\ UNCHANGED notConnVars

\* The settle delay is over: the buffer is returned if it holds 5 bytes.
ReadSettle(t) ==
    /\ task[t].pc = "settle"
    /\ task' = [task EXCEPT ![t] =
                  IF ByteLen(_notification_data) >= MIN_RESPONSE_LEN
                  THEN Returned(@, BytesRet(_notification_data), "ok")
                  ELSE Returned(@, NoneRet, "short")]
    /\ _lock' = 0
    /\ UNCHANGED <<sessVars, bufVars, _loop, wire, next_req, connect_calls>>
    /\ UNCHANGED notConnVars

\* The same step with the fragment replacing what the buffer holds.
NotifyOverwrites ==
    /\ wire # <<>>
    /\ client # None
    /\ client_up
    /\ notifying
    /\ _notification_data' = <<Head(wire)>>
    /\ _notification_event' = IF _loop # None THEN TRUE ELSE _notification_event
    /\ wire' = Tail(wire)
    /\ UNCHANGED <<sessVars, _lock, _loop, task, next_req, connect_calls>>
    /\ UNCHANGED notConnVars

\* _notification_handler: a fragment arrives on the subscribed session.
Notify ==
    /\ wire # <<>>
    /\ client # None
    /\ client_up
    /\ notifying
    /\ _notification_data' = Append(_notification_data, Head(wire))
    /\ _notification_event' = IF _loop # None THEN TRUE ELSE _notification_event
    /\ wire' = Tail(wire)
    /\ UNCHANGED <<sessVars, _lock, _loop, task, next_req, connect_calls>>
    /\ UNCHANGED notConnVars

\* The transport drops the session and the callback leaves the flag alone.
DisconnectEventKeepsFlag ==
    /\ client # None
    /\ client_up
    /\ client_up' = FALSE
    /\ notifying' = FALSE
    /\ _connected' = _connected
    /\ wire' = <<>>
    /\ UNCHANGED <<client, _notify_char, _write_char, bufVars, _lock, _loop,
                   task, next_req, connect_calls>>
    /\ UNCHANGED notConnVars

\* _on_disconnect: the transport drops the session.
DisconnectEvent ==
    /\ client # None
    /\ client_up
    /\ client_up' = FALSE
    /\ notifying' = FALSE
    /\ _connected' = FALSE
    /\ wire' = <<>>
    /\ UNCHANGED <<client, _notify_char, _write_char, bufVars, _lock, _loop,
                   task, next_req, connect_calls>>
    /\ UNCHANGED notConnVars

ConnNext ==
    \/ \E t \in Tasks : ReadBegin(t)
    \/ \E t \in Tasks : ReadAcquire(t)
    \/ \E t \in Tasks : ReadAfterConnect(t)
    \/ \E t \in Tasks : ConnectCall(t)
    \/ \E t \in Tasks : ConnectCallReturn(t)
    \/ \E t \in Tasks : ConnectAttempt(t)
    \/ \E t \in Tasks : ConnectOpen(t)
    \/ \E t \in Tasks : ConnectSubscribe(t)
    \/ \E t \in Tasks : ConnectCleanup(t)
    \/ \E t \in Tasks : ReadWrite(t)
    \/ \E t \in Tasks : ReadWake(t)
    \/ \E t \in Tasks : ReadTimeout(t)
    \/ \E t \in Tasks : ReadSettle(t)
    \/ \E t \in Tasks : ReadReturn(t)
    \/ Notify
    \/ DisconnectEvent

ConnSpecInit ==
    /\ HealthInit
    /\ device_configs = <<>>
    /\ MgrUnbuilt
    /\ ConnInit
    /\ PollIdle
    /\ ValidatorIdle
    /\ DetectIdle
    /\ ConnectAllIdle
    /\ CoordinatorIdle
    /\ PureIdle

SpecConn == ConnSpecInit /\ [][ConnNext]_vars

\* ---------------------------------------------------------- claims C7-C10
\* C7: connect() makes at most 3 attempts, returns true at the first attempt
\* that succeeds and false after three failed attempts, whatever the failures
\* are (device not found, open error, not connected after open, subscription
\* error), and ends in no other way.
C7_ConnectAtMostThreeAttempts ==
    \A t \in Tasks :
        /\ task[t].attempts <= 3
        /\ task[t].cpc \in {"none", "attempt", "opening", "subscribing",
                            "cleanup", "returned"}
        /\ task[t].cpc = "returned" => task[t].cret \in {"true", "false"}
        /\ task[t].cret = "true" =>
              \/ task[t].attempts = 0
              \/ /\ task[t].last_kind = "ok"
                 /\ task[t].fails = task[t].attempts - 1
        /\ task[t].cret = "false" =>
              /\ task[t].attempts = 3
              /\ task[t].fails = 3
              /\ task[t].last_kind \in {"not_found", "resolve_error", "open_error",
                                        "not_connected", "subscribe_error"}
        /\ task[t].last_kind = "ok" =>
              (task[t].cpc = "returned" /\ task[t].cret = "true")

\* connect() has returned false after three attempts, the last of which
\* opened a session that was not connected.
C7_Witness ==
    \E t \in Tasks :
        /\ task[t].cpc = "returned"
        /\ task[t].cret = "false"
        /\ task[t].attempts = 3
        /\ task[t].last_kind = "not_connected"

\* Between clearing the receive buffer and returning.
InFlight(t) == task[t].pc \in {"write", "wait", "settle"}

\* C8: at most one read_registers call at a time is between clearing the
\* receive buffer and returning, and it holds the lock; the buffer and the
\* ready-signal are not cleared while a request is in flight.
C8_OneRequestInFlight ==
    /\ [](\A t \in Tasks :
            InFlight(t) =>
                (_lock = t /\ \A u \in Tasks \ {t} : ~InFlight(u)))
    /\ [][((_notification_event /\ ~_notification_event')
            \/ Len(_notification_data') < Len(_notification_data))
          => \A t \in Tasks : ~InFlight(t)]_vars

\* One request awaits its response while another caller waits for the lock.
C8_Witness ==
    \E t, u \in Tasks :
        /\ t # u
        /\ task[t].pc = "wait"
        /\ _lock = t
        /\ task[u].pc = "acquire"

\* C9: the bytes read_registers returns for a request are only bytes the
\* device sent in answer to that request; a notification answering an earlier
\* request is never returned as, or mixed into, a later request's response.
C9_ResponseAnswersItsRequest ==
    \A t \in Tasks :
        (task[t].pc = "done" /\ ~task[t].ret.none) =>
            \A i \in DOMAIN task[t].ret.bytes : task[t].ret.bytes[i].cur

\* The step in which the response wait of task t expired.
TimedOut(t) ==
    /\ task[t].pc = "wait"
    /\ ~_notification_event
    /\ task'[t].pc # "wait"

\* C10: when the response wait expires, read_registers returns None and the
\* connection is left as it was: the connected flag and the session are
\* unchanged, and no connect or disconnect is started.
C10_TimeoutLeavesConnection ==
    [][\A t \in Tasks : TimedOut(t) =>
          /\ task'[t].pc = "done"
          /\ task'[t].ret = NoneRet
          /\ _connected' = _connected
          /\ client' = client
          /\ client_up' = client_up
          /\ notifying' = notifying
          /\ _notify_char' = _notify_char
          /\ _write_char' = _write_char
          /\ \A u \in Tasks : task'[u].cpc = task[u].cpc]_vars

\* A request has timed out and the connection is still connected.
C10_Witness ==
    \E t \in Tasks :
        /\ task[t].pc = "done"
        /\ task[t].exit = "timeout"
        /\ task[t].ret = NoneRet
        /\ is_connected

\* ---------------------------------------------------------- claims C11-C12
\* The step in which writing the request frame of task t fails: the write
\* raises, or the session handle is missing when the write is reached.
WriteFails(t) ==
    \/ /\ task[t].pc = "write"
       /\ task'[t].pc \notin {"write", "wait"}
    \/ /\ task[t].pc = "connect"
       /\ task[t].cpc = "returned"
       /\ task[t].cret = "true"
       /\ client = None
       /\ task'[t] # task[t]

\* C11: when writing the request frame fails, also because the session handle
\* is missing at write time, the connection is not connected right after the
\* step, read_registers returns None without waiting for a response, and it
\* ends by returning, with the lock released.
C11_WriteFailureDisconnects ==
    [][\A t \in Tasks : WriteFails(t) =>
          /\ ~is_connected'
          /\ ~_connected'
          /\ task'[t].pc = "done"
          /\ task'[t].ret = NoneRet
          /\ _lock' = 0
          /\ wire' = Stale(wire)]_vars

\* A write has failed on a session that is still up, and the connection
\* counts as not connected.
C11_Witness ==
    \E t \in Tasks :
        /\ task[t].pc = "done"
        /\ task[t].exit = "write_failed"
        /\ task[t].ret = NoneRet
        /\ client # None
        /\ client_up
        /\ ~is_connected

\* The step in which task t, holding no session, gets the lock.
ReconnectNeeded(t) ==
    /\ task[t].pc = "acquire"
    /\ ~is_connected
    /\ task'[t].pc # "acquire"

\* The step in which read_registers of task t goes on after its connect().
ReconnectOver(t) ==
    /\ task[t].pc = "connect"
    /\ task[t].cpc = "returned"
    /\ task'[t] # task[t]

RECURSIVE Xor(_, _)
Xor(a, b) ==
    IF a = 0 THEN b
    ELSE IF b = 0 THEN a
    ELSE ((a + b) % 2) + 2 * Xor(a \div 2, b \div 2)

\* modbus_crc16: `crc = 0xFFFF`.
CRC_INIT == 65535
\* modbus_crc16: `^ 0xA001`.
CRC_POLY == 40961

\* modbus_crc16: `for _ in range(8)`, n iterations of it.
RECURSIVE crc_shift(_, _)
crc_shift(crc, n) ==
    IF n = 0 THEN crc
    ELSE IF crc % 2 = 1
    THEN crc_shift(Xor(crc \div 2, CRC_POLY), n - 1)
    ELSE crc_shift(crc \div 2, n - 1)

\* modbus_crc16: `for byte in data`.
RECURSIVE crc_fold(_, _)
crc_fold(crc, data) ==
    IF crc \in Nat /\ data # <<>>
    THEN crc_fold(crc_shift(Xor(crc, Head(data)), 8), Tail(data))
    ELSE crc

\* modbus_crc16(data): the tuple (crc_low, crc_high).
modbus_crc16(data) ==
    LET crc == crc_fold(CRC_INIT, data) IN
    <<crc % 256, (crc \div 256) % 256>>

\* bytearray([...]) takes only values in range(0, 256).
IsByte(b) == b \in 0..255

\* create_modbus_read_request(device_id, function_code, register, word_count).
create_modbus_read_request(device_id, function_code, register, word_count) ==
    LET head == <<device_id, function_code,
                  (register \div 256) % 256, register % 256,
                  (word_count \div 256) % 256, word_count % 256>>
    IN  IF \E i \in DOMAIN head : ~IsByte(head[i])
        THEN Raise("ValueError")
        ELSE Return(head \o modbus_crc16(head))

\* validate_modbus_response: `if len(data) < 5`.
MIN_FRAME_LEN == 5

\* data[i], i counted from 0, exists; outside, Python raises IndexError.
InRange(data, i) == i \in 0..(Len(data) - 1)
Item(data, i) == data[i + 1]

\* The CRC check of validate_modbus_response reading the trailer high byte
\* first.
crc_matches_swapped(data, expected_len) ==
    LET payload == SubSeq(data, 1, expected_len - 2)
        received_crc == Item(data, expected_len - 2) * 256
                        + Item(data, expected_len - 1)
        crc == modbus_crc16(payload)
        calculated_crc == crc[2] * 256 + crc[1]
    IN  received_crc = calculated_crc

\* validate_modbus_response: the `# Verify CRC` block.
crc_matches(data, expected_len) ==
    LET payload == SubSeq(data, 1, expected_len - 2)
        received_crc == Item(data, expected_len - 1) * 256
                        + Item(data, expected_len - 2)
        crc == modbus_crc16(payload)
        calculated_crc == crc[2] * 256 + crc[1]
    IN  received_crc = calculated_crc

\* validate_modbus_response(data, expected_device_id).
validate_modbus_response(data, expected_device_id) ==
    IF Len(data) < MIN_FRAME_LEN THEN Return(FALSE)
    ELSE IF expected_device_id # Absent /\ ~InRange(data, 0)
    THEN Raise("IndexError")
    ELSE IF expected_device_id # Absent /\ Item(data, 0) # expected_device_id
    THEN Return(FALSE)
    ELSE IF ~InRange(data, 1) THEN Raise("IndexError")
    ELSE IF (Item(data, 1) \div 128) % 2 = 1 THEN Return(FALSE)
    ELSE IF Len(data) >= MIN_FRAME_LEN
    THEN IF ~InRange(data, 2) THEN Raise("IndexError")
         ELSE LET byte_count == Item(data, 2)
                  expected_len == 3 + byte_count + 2
              IN  IF Len(data) < expected_len THEN Return(FALSE)
                  ELSE IF ~InRange(data, expected_len - 1)
                          \/ ~InRange(data, expected_len - 2)
                  THEN Raise("IndexError")
                  ELSE IF ~crc_matches(data, expected_len) THEN Return(FALSE)
                  ELSE Return(TRUE)
    ELSE Return(TRUE)

\* -------------------------------------------------------------- SpecCodec
\* Longest frame made of arbitrary bytes.
MaxRawLen == 5
\* Largest number of data bytes in a response made with its checksum.
MaxDataLen == 2

\* The bytes arbitrary frames are made of: a unit id, the read function, its
\* error form 0x83, zero.
RawBytes == {0, 1, 3, 131}
RawFrames == SeqsUpTo(RawBytes, MaxRawLen)

\* The unit id the device answers with, and what the caller expects.
UnitId == 1
ExpectedIds == {Absent, 1, 255}

\* Data bytes of responses: zero, all ones, and the two bytes that are the
\* checksum of a response header without data.
DataBytes == {0, 255} \cup Range(modbus_crc16(<<UnitId, 3, 0>>))

\* A response body [unit, function, byte_count, data...].
Payload(u, f, data) == <<u, f, Len(data)>> \o data
\* Read responses whose byte count is their number of data bytes.
Payloads == {Payload(UnitId, 3, d) : d \in SeqsUpTo(DataBytes, MaxDataLen)}
\* Error responses, and bodies whose byte count is not their data length.
OddPayloads ==
    {<<UnitId, f, n>> \o d : f \in {3, 131}, n \in 0..(MaxDataLen + 1),
                             d \in SeqsUpTo({0}, MaxDataLen)}
    \ Payloads

\* P ++ crc16(P), low byte first.
Seal(P) == P \o modbus_crc16(P)

\* The frame with bit k flipped, bits counted from bit 0 of the first byte.
FlipBit(frame, k) ==
    [frame EXCEPT ![(k \div 8) + 1] = Xor(@, 2 ^ (k % 8))]

ValidateCall(data, expected, made, P) ==
    [fn |-> "validate_modbus_response", data |-> data,
     expected_device_id |-> expected, made |-> made, payload |-> P]

ValidateCalls ==
    {ValidateCall(f, e, "raw", <<>>) : f \in RawFrames, e \in ExpectedIds}
    \cup {ValidateCall(Seal(P), e, "sealed", P) :
            P \in Payloads, e \in ExpectedIds}
    \cup {ValidateCall(Seal(P), e, "odd", P) :
            P \in OddPayloads, e \in ExpectedIds}
    \cup UNION {{ValidateCall(FlipBit(Seal(P), k), e, "flipped", P) :
                    k \in 0..(8 * (Len(P) + 2) - 1), e \in {Absent, UnitId}} :
                P \in Payloads}
    \cup {ValidateCall(SubSeq(Seal(P), 1, Len(P) + 1), e, "truncated", P) :
            P \in Payloads, e \in ExpectedIds}
    \cup {ValidateCall(Seal(P) \o <<b>>, e, "extended", P) :
            P \in Payloads, b \in {0, 255}, e \in ExpectedIds}

\* Unit ids as the configuration form accepts them (any positive integer),
\* the read function, register addresses and word counts of the catalogs.
BuildUnitIds == {1, 247, 255, 256}
BuildRegisters == {12, 256, 5122, 57348, 60000}
BuildWords == {1, 8, 34}

BuildCalls ==
    {[fn |-> "create_modbus_read_request", device_id |-> u,
      function_code |-> 3, register |-> a, word_count |-> w] :
        u \in BuildUnitIds, a \in BuildRegisters, w \in BuildWords}

CodecInit ==
    /\ HealthInit
    /\ ConnInit
    /\ PollIdle
    /\ ValidatorIdle
    /\ DetectIdle
    /\ ConnectAllIdle
    /\ CoordinatorIdle
    /\ device_configs = <<>>
    /\ MgrUnbuilt
    /\ call \in ValidateCalls \cup BuildCalls
    /\ ret = Pending

\* validate_modbus_response is applied to the call's arguments.
ValidateResponse ==
    /\ call.fn = "validate_modbus_response"
    /\ ret = Pending
    /\ ret' = validate_modbus_response(call.data, call.expected_device_id)
    /\ UNCHANGED call
    /\ UNCHANGED notPureVars

\* create_modbus_read_request is applied to the call's arguments.
BuildRequest ==
    /\ call.fn = "create_modbus_read_request"
    /\ ret = Pending
    /\ ret' = create_modbus_read_request(call.device_id, call.function_code,
                                         call.register, call.word_count)
    /\ UNCHANGED call
    /\ UNCHANGED notPureVars

CodecNext ==
    \/ ValidateResponse
    \/ BuildRequest

SpecCodec == CodecInit /\ [][CodecNext]_vars

\* --------------------------------------------------------- claims C15-C17
Validated == call.fn = "validate_modbus_response" /\ ret # Pending

\* C15: validate_modbus_response raises for no byte sequence, the empty one
\* included, and returns true exactly when the length is at least 5, the
\* first byte is the expected unit id if one is given, the high bit of the
\* function byte is clear, the length is at least 3 + byte_count + 2, and the
\* CRC16 of the first 3 + byte_count bytes equals the two bytes after them,
\* low byte first.
C15_ValidateExactly ==
    Validated =>
        LET d == call.data
            e == call.expected_device_id
        IN  /\ ret.kind = "return"
            /\ ret.value =
                  (/\ Len(d) >= 5
                   /\ e # Absent => d[1] = e
                   /\ d[2] < 128
                   /\ Len(d) >= 3 + d[3] + 2
                   /\ modbus_crc16(SubSeq(d, 1, 3 + d[3]))
                        = <<d[3 + d[3] + 1], d[3 + d[3] + 2]>>)

\* A response with two data bytes and its checksum was validated against its
\* own unit id, and accepted.
C15_Witness ==
    /\ Validated
    /\ call.made = "sealed"
    /\ Len(call.data) = 7
    /\ call.expected_device_id = UnitId
    /\ ret = Return(TRUE)

\* C16: for every payload P, P ++ crc16(P) validates against P's unit id, and
\* P ++ crc16(P) with any single bit flipped, in P or in the two checksum
\* bytes, does not validate.
C16_SealedValidatesFlippedFails ==
    (Validated /\ call.expected_device_id = UnitId) =>
        /\ call.made = "sealed" => ret = Return(TRUE)
        /\ call.made = "flipped" => ret = Return(FALSE)

Built == call.fn = "create_modbus_read_request" /\ ret # Pending

\* C17: create_modbus_read_request(u, f, a, w) has no failure path: it returns
\* 8 bytes, the first six [u, f, a_hi, a_lo, w_hi, w_lo] with address and word
\* count split big-endian, the last two the CRC16 (polynomial 0xA001, initial
\* value 0xFFFF) of those six, low byte first.
C17_RequestIsEightBytes ==
    Built =>
        /\ ret.kind = "return"
        /\ Len(ret.value) = 8
        /\ SubSeq(ret.value, 1, 6) =
              <<call.device_id, call.function_code,
                call.register \div 256, call.register % 256,
                call.word_count \div 256, call.word_count % 256>>
        /\ SubSeq(ret.value, 7, 8) = modbus_crc16(SubSeq(ret.value, 1, 6))

\* ============================================================ ble_parsers
\* bytes_to_int(data, offset, length), unsigned and unscaled: 0 when the
\* bytes are not all there or the length is not 1, 2 or 4.
bytes_to_int(data, offset, length) ==
    IF offset + length > Len(data) THEN 0
    ELSE IF length = 1 THEN Item(data, offset)
    ELSE IF length = 2 THEN Item(data, offset) * 256 + Item(data, offset + 1)
    ELSE IF length = 4
    THEN Item(data, offset) * 16777216 + Item(data, offset + 1) * 65536
         + Item(data, offset + 2) * 256 + Item(data, offset + 3)
    ELSE 0

\* A parser's result maps field names to values. The value decoded from the
\* bytes of a field is not modelled: every decoded field holds "decoded".
Decoded(keys) == [k \in keys |-> "decoded"]

\* The result parse_controller_faults starts from: empty lists, zero counts.
FaultDefaults ==
    [k \in {"faults", "warnings", "fault_count", "warning_count"} |->
        IF k \in {"faults", "warnings"} THEN "[]" ELSE "0"]

\* What parse_battery_alarm_info returns for a short payload.
AlarmDefaults ==
    [k \in {"cell_voltage_alarms", "cell_temperature_alarms",
            "protection_alarms", "warnings", "alarm_count", "warning_count"} |->
        IF k \in {"alarm_count", "warning_count"} THEN "0" ELSE "[]"]

\* parse_controller_device_info (registers 12-19).
parse_controller_device_info(data, offset) ==
    IF Len(data) < offset + 16 THEN EmptyDict
    ELSE Decoded({"model"})

\* parse_controller_device_id asking only for the one byte it reads.
parse_controller_device_id_loose(data, offset) ==
    IF Len(data) < offset + 1 THEN EmptyDict
    ELSE Decoded({"device_id"})

\* parse_controller_device_id (register 26).
parse_controller_device_id(data, offset) ==
    IF Len(data) < offset + 2 THEN EmptyDict
    ELSE Decoded({"device_id"})

\* parse_controller_charging_info (registers 256-289).
parse_controller_charging_info(data, offset) ==
    IF Len(data) < offset + 68 THEN EmptyDict
    ELSE Decoded({"battery_percentage", "battery_voltage", "battery_current",
                  "battery_temperature", "controller_temperature",
                  "load_voltage", "load_current", "load_power", "pv_voltage",
                  "pv_current", "pv_power", "max_charging_power_today",
                  "max_discharging_power_today", "charging_amp_hours_today",
                  "discharging_amp_hours_today", "power_generation_today",
                  "power_consumption_today", "power_generation_total",
                  "load_status", "charging_status"})

\* parse_controller_battery_type (register 57348).
parse_controller_battery_type(data, offset) ==
    IF Len(data) < offset + 2 THEN EmptyDict
    ELSE Decoded({"battery_type"})

\* parse_controller_faults (registers 289-290): the result is created with its
\* four entries before the length is looked at.
parse_controller_faults(data, offset) ==
    IF Len(data) < offset + 4 THEN FaultDefaults
    ELSE Decoded({"faults", "warnings", "fault_count", "warning_count"})

\* parse_controller_historical (register 60000).
parse_controller_historical(data, offset) ==
    IF Len(data) < offset + 42 THEN EmptyDict
    ELSE Decoded({"daily_power_generation", "daily_charge_ah",
                  "daily_max_power"})

\* parse_battery_cell_info (registers 5000-5016).
parse_battery_cell_info(data, offset) ==
    IF Len(data) < offset + 4 THEN EmptyDict
    ELSE Decoded({"cell_count", "cell_voltages"})

\* parse_battery_temp_info (registers 5017-5033): `battery_temperature` is set
\* when the list of temperatures is not empty.
parse_battery_temp_info(data, offset) ==
    IF Len(data) < offset + 4 THEN EmptyDict
    ELSE Decoded({"temperature_count", "temperatures"}
                 \cup (IF bytes_to_int(data, offset, 2) > 0
                       THEN {"battery_temperature"} ELSE {}))

\* parse_battery_info (registers 5042-5049).
parse_battery_info(data, offset) ==
    IF Len(data) < offset + 12 THEN EmptyDict
    ELSE Decoded({"current", "voltage", "remaining_capacity",
                  "total_capacity", "soc", "power"})

\* parse_battery_alarm_info (registers 5100-5109): the four lists exist before
\* the length is looked at, and the short path adds the two counts.
parse_battery_alarm_info(data, offset) ==
    IF Len(data) < offset + 20 THEN AlarmDefaults
    ELSE Decoded({"cell_voltage_alarms", "cell_temperature_alarms",
                  "protection_alarms", "warnings", "using_battery_power",
                  "discharge_mosfet", "charge_mosfet", "effective_charge",
                  "effective_discharge", "heater_on", "fully_charged",
                  "buzzer_on", "discharge_enabled", "charge_enabled",
                  "charge_immediately", "full_charge_request", "alarms",
                  "alarm_count", "warning_count"})

\* parse_battery_device_info (registers 5122-5129).
parse_battery_device_info(data, offset) ==
    IF Len(data) < offset + 16 THEN EmptyDict
    ELSE Decoded({"model"})

\* parse_inverter_main_status (registers 4000-4009).
parse_inverter_main_status(data, offset) ==
    IF Len(data) < offset + 18 THEN EmptyDict
    ELSE Decoded({"input_voltage", "input_current", "output_voltage",
                  "output_current", "output_frequency", "battery_voltage",
                  "temperature", "faults", "eco_mode",
                  "ups_line_interactive", "test_in_progress", "beeper_on",
                  "fault_count", "input_power", "output_power"}
                 \cup (IF Len(data) >= offset + 20
                       THEN {"input_frequency"} ELSE {}))

\* parse_inverter_device_info (registers 4303-4326).
parse_inverter_device_info(data, offset) ==
    IF Len(data) < offset + 48 THEN EmptyDict
    ELSE Decoded({"manufacturer", "model", "firmware_version"})

\* parse_inverter_pv_info (registers 4327-4333).
parse_inverter_pv_info(data, offset) ==
    IF Len(data) < offset + 12 THEN EmptyDict
    ELSE Decoded({"battery_soc", "charge_current", "pv_voltage",
                  "pv_current", "pv_power", "charging_status"})

\* parse_inverter_settings_status (registers 4398-4417).
parse_inverter_settings_status(data, offset) ==
    IF Len(data) < offset + 30 THEN EmptyDict
    ELSE Decoded({"machine_state", "bus_voltage", "load_current",
                  "load_active_power", "load_apparent_power"}
                 \cup (IF Len(data) >= offset + 32
                       THEN {"load_percentage"} ELSE {}))

\* parse_inverter_statistics (registers 4543-4567).
parse_inverter_statistics(data, offset) ==
    IF Len(data) < offset + 10 THEN EmptyDict
    ELSE Decoded({"battery_charge_ah_today", "battery_discharge_ah_today",
                  "pv_generation_today", "load_consumption_today"}
                 \cup (IF Len(data) >= offset + 30
                       THEN {"battery_charge_ah_total",
                             "battery_discharge_ah_total",
                             "pv_generation_total", "load_consumption_total"}
                       ELSE {}))

\* parse_inverter_settings (registers 4441-4444).
parse_inverter_settings(data, offset) ==
    IF Len(data) < offset + 8 THEN EmptyDict
    ELSE Decoded({"output_priority", "output_frequency_setting",
                  "ac_voltage_range", "power_saving_mode"})

ParserNames ==
    {"parse_controller_device_info",
     "parse_controller_device_id",
     "parse_controller_charging_info",
     "parse_controller_battery_type",
     "parse_controller_faults",
     "parse_controller_historical",
     "parse_battery_cell_info",
     "parse_battery_temp_info",
     "parse_battery_info",
     "parse_battery_alarm_info",
     "parse_battery_device_info",
     "parse_inverter_main_status",
     "parse_inverter_device_info",
     "parse_inverter_pv_info",
     "parse_inverter_settings_status",
     "parse_inverter_statistics",
     "parse_inverter_settings"}

\* parser_func(data, offset) for the function of that name.
Parser(name, data, offset) ==
    CASE name = "parse_controller_device_info" ->
            parse_controller_device_info(data, offset)
      [] name = "parse_controller_device_id" ->
            parse_controller_device_id(data, offset)
      [] name = "parse_controller_charging_info" ->
            parse_controller_charging_info(data, offset)
      [] name = "parse_controller_battery_type" ->
            parse_controller_battery_type(data, offset)
      [] name = "parse_controller_faults" ->
            parse_controller_faults(data, offset)
      [] name = "parse_controller_historical" ->
            parse_controller_historical(data, offset)
      [] name = "parse_battery_cell_info" ->
            parse_battery_cell_info(data, offset)
      [] name = "parse_battery_temp_info" ->
            parse_battery_temp_info(data, offset)
      [] name = "parse_battery_info" ->
            parse_battery_info(data, offset)
      [] name = "parse_battery_alarm_info" ->
            parse_battery_alarm_info(data, offset)
      [] name = "parse_battery_device_info" ->
            parse_battery_device_info(data, offset)
      [] name = "parse_inverter_main_status" ->
            parse_inverter_main_status(data, offset)
      [] name = "parse_inverter_device_info" ->
            parse_inverter_device_info(data, offset)
      [] name = "parse_inverter_pv_info" ->
            parse_inverter_pv_info(data, offset)
      [] name = "parse_inverter_settings_status" ->
            parse_inverter_settings_status(data, offset)
      [] name = "parse_inverter_statistics" ->
            parse_inverter_statistics(data, offset)
      [] name = "parse_inverter_settings" ->
            parse_inverter_settings(data, offset)

\* A decoder that raises, as the tests patch one into the dispatch table.
RaisingDecoder == "raising_decoder"

\* parser_func(data): a decoder of the dispatch table is called.
CallDecoder(name, data) ==
    IF name = RaisingDecoder THEN Raise("Exception")
    ELSE Return(Parser(name, data, 3))

\* DeviceType values.
CONTROLLER == "controller"
BATTERY == "battery"
INVERTER == "inverter"

PARSERS ==
    [t \in {CONTROLLER, BATTERY, INVERTER} |->
        CASE t = CONTROLLER ->
                (12 :> "parse_controller_device_info"
                 @@ 26 :> "parse_controller_device_id"
                 @@ 256 :> "parse_controller_charging_info"
                 @@ 289 :> "parse_controller_faults"
                 @@ 57348 :> "parse_controller_battery_type"
                 @@ 60000 :> "parse_controller_historical")
          [] t = BATTERY ->
                (5000 :> "parse_battery_cell_info"
                 @@ 5017 :> "parse_battery_temp_info"
                 @@ 5042 :> "parse_battery_info"
                 @@ 5100 :> "parse_battery_alarm_info"
                 @@ 5122 :> "parse_battery_device_info")
          [] t = INVERTER ->
                (4000 :> "parse_inverter_main_status"
                 @@ 4303 :> "parse_inverter_device_info"
                 @@ 4327 :> "parse_inverter_pv_info"
                 @@ 4398 :> "parse_inverter_settings_status"
                 @@ 4441 :> "parse_inverter_settings"
                 @@ 4543 :> "parse_inverter_statistics")]

\* PARSERS as test_parse_response_edge_cases patches it: the controller's
\* table is replaced by one decoder, at register 123, that raises.
PatchedParsers ==
    [PARSERS EXCEPT ![CONTROLLER] = (123 :> RaisingDecoder)]

\* parse_response letting the decoder's exception through.
parse_response_unguarded(parsers, device_type, register, data) ==
    IF device_type \notin DOMAIN parsers THEN Return(EmptyDict)
    ELSE IF register \notin DOMAIN parsers[device_type] THEN Return(EmptyDict)
    ELSE CallDecoder(parsers[device_type][register], data)

\* parse_response(device_type, register, data), PARSERS being `parsers`.
parse_response(parsers, device_type, register, data) ==
    IF device_type \notin DOMAIN parsers THEN Return(EmptyDict)
    ELSE IF register \notin DOMAIN parsers[device_type] THEN Return(EmptyDict)
    ELSE LET result == CallDecoder(parsers[device_type][register], data) IN
         IF result.kind = "raise" THEN Return(EmptyDict) ELSE result

\* -------------------------------------------------------------- SpecParse
\* Longest payload handed to a parser.
MaxParseLen == 72

\* A payload of n bytes, all equal to b.
Fill(n, b) == [i \in 1..n |-> b]
ParseData == {Fill(n, b) : n \in 0..MaxParseLen, b \in {0, 1}}
\* The offsets parsers are called with: the default, and none.
ParseOffsets == {0, 3}

ParserCalls ==
    {[fn |-> "parser", parser |-> name, data |-> d, offset |-> o] :
        name \in ParserNames, d \in ParseData, o \in ParseOffsets}

\* Device types and registers parse_response is called with: those of the
\* tables and, as in the tests, ones that are in no table.
ParseTypes == {CONTROLLER, BATTERY, INVERTER, "UNKNOWN_TYPE"}
ParseRegisters ==
    UNION {DOMAIN PARSERS[t] : t \in DOMAIN PARSERS} \cup {123, 99999}
\* Payload lengths parse_response is called with.
ParseResponseLens == {0, 5, 7, 23, MaxParseLen}

ParseResponseCalls ==
    {[fn |-> "parse_response", parsers |-> tbl, device_type |-> t,
      register |-> r, data |-> Fill(n, b)] :
        tbl \in {PARSERS, PatchedParsers}, t \in ParseTypes,
        r \in ParseRegisters, n \in ParseResponseLens, b \in {0, 1}}

ParseInit ==
    /\ HealthInit
    /\ ConnInit
    /\ PollIdle
    /\ ValidatorIdle
    /\ DetectIdle
    /\ ConnectAllIdle
    /\ CoordinatorIdle
    /\ device_configs = <<>>
    /\ MgrUnbuilt
    /\ call \in ParserCalls \cup ParseResponseCalls
    /\ ret = Pending

\* A parser is applied to the call's payload.
ParsePayload ==
    /\ call.fn = "parser"
    /\ ret = Pending
    /\ ret' = Return(Parser(call.parser, call.data, call.offset))
    /\ UNCHANGED call
    /\ UNCHANGED notPureVars

\* parse_response is applied to the call's arguments.
ParseResponse ==
    /\ call.fn = "parse_response"
    /\ ret = Pending
    /\ ret' = parse_response(call.parsers, call.device_type, call.register,
                             call.data)
    /\ UNCHANGED call
    /\ UNCHANGED notPureVars

ParseNext ==
    \/ ParsePayload
    \/ ParseResponse

SpecParse == ParseInit /\ [][ParseNext]_vars

\* --------------------------------------------------------- claims C18-C19
\* The number of bytes after the offset each parser asks for before it
\* decodes anything.
MinLength(name) ==
    CASE name = "parse_controller_device_info" -> 16
      [] name = "parse_controller_device_id" -> 2
      [] name = "parse_controller_charging_info" -> 68
      [] name = "parse_controller_battery_type" -> 2
      [] name = "parse_controller_faults" -> 4
      [] name = "parse_controller_historical" -> 42
      [] name = "parse_battery_cell_info" -> 4
      [] name = "parse_battery_temp_info" -> 4
      [] name = "parse_battery_info" -> 12
      [] name = "parse_battery_alarm_info" -> 20
      [] name = "parse_battery_device_info" -> 16
      [] name = "parse_inverter_main_status" -> 18
      [] name = "parse_inverter_device_info" -> 48
      [] name = "parse_inverter_pv_info" -> 12
      [] name = "parse_inverter_settings_status" -> 30
      [] name = "parse_inverter_statistics" -> 10
      [] name = "parse_inverter_settings" -> 8

\* A parser has been applied to a payload shorter than its minimum length.
ParsedShort ==
    /\ call.fn = "parser"
    /\ ret # Pending
    /\ Len(call.data) < call.offset + MinLength(call.parser)

\* C18 as stated: every parser given a payload shorter than its minimum
\* length returns an empty mapping and never raises.
C18_ShortPayloadEmpty ==
    ParsedShort => (ret.kind = "return" /\ DOMAIN ret.value = {})

\* C18 as amended: every parser given a payload shorter than its minimum
\* length returns without raising; the result is the empty mapping, except
\* that parse_controller_faults returns its two empty lists and two zero
\* counts and parse_battery_alarm_info its four empty lists and two zero
\* counts.
C18_ShortPayloadEmptyOrDefaults ==
    ParsedShort =>
        /\ ret.kind = "return"
        /\ IF call.parser = "parse_controller_faults"
           THEN /\ DOMAIN ret.value =
                      {"faults", "warnings", "fault_count", "warning_count"}
                /\ ret.value["faults"] = "[]"
                /\ ret.value["warnings"] = "[]"
                /\ ret.value["fault_count"] = "0"
                /\ ret.value["warning_count"] = "0"
           ELSE IF call.parser = "parse_battery_alarm_info"
           THEN /\ DOMAIN ret.value =
                      {"cell_voltage_alarms", "cell_temperature_alarms",
                       "protection_alarms", "warnings", "alarm_count",
                       "warning_count"}
                /\ \A k \in {"cell_voltage_alarms", "cell_temperature_alarms",
                             "protection_alarms", "warnings"} :
                      ret.value[k] = "[]"
                /\ ret.value["alarm_count"] = "0"
                /\ ret.value["warning_count"] = "0"
           ELSE DOMAIN ret.value = {}

\* parse_controller_faults was given six bytes, one fewer than it needs at
\* the default offset, and returned its defaults.
C18_Witness ==
    /\ ParsedShort
    /\ call.parser = "parse_controller_faults"
    /\ call.offset = 3
    /\ Len(call.data) = 6
    /\ ret = Return(FaultDefaults)

\* C19: parse_response returns the empty mapping, and does not raise, when
\* the device type is not in the dispatch table, when the register has no
\* decoder for that type, and when the decoder raises; otherwise it returns
\* what the decoder returned.
C19_ParseResponseTotal ==
    (call.fn = "parse_response" /\ ret # Pending) =>
        LET tbl == call.parsers IN
        /\ ret.kind = "return"
        /\ IF call.device_type \notin DOMAIN tbl
           THEN DOMAIN ret.value = {}
           ELSE IF call.register \notin DOMAIN tbl[call.device_type]
           THEN DOMAIN ret.value = {}
           ELSE IF tbl[call.device_type][call.register] = RaisingDecoder
           THEN DOMAIN ret.value = {}
           ELSE ret.value = Parser(tbl[call.device_type][call.register],
                                   call.data, 3)

\* parse_response was called for the register whose decoder raises, and
\* returned the empty mapping.
C19_Witness ==
    /\ call.fn = "parse_response"
    /\ call.device_type = CONTROLLER
    /\ call.register = 123
    /\ call.parsers = PatchedParsers
    /\ ret.kind = "return"
    /\ DOMAIN ret.value = {}

\* ============================================================ poll_device
\* CONTROLLER_REGISTERS, BATTERY_REGISTERS, INVERTER_REGISTERS.
RegInfo(name, register, words) ==
    [name |-> name, register |-> register, words |-> words]

CONTROLLER_REGISTERS ==
    <<RegInfo("device_info", 12, 8), RegInfo("device_id", 26, 1),
      RegInfo("charging_info", 256, 34), RegInfo("faults", 289, 2),
      RegInfo("battery_type", 57348, 1), RegInfo("historical", 60000, 21)>>

BATTERY_REGISTERS ==
    <<RegInfo("cell_info", 5000, 17), RegInfo("temp_info", 5017, 17),
      RegInfo("battery_info", 5042, 8), RegInfo("status_info", 5100, 10),
      RegInfo("device_info", 5122, 8)>>

INVERTER_REGISTERS ==
    <<RegInfo("main_status", 4000, 10), RegInfo("device_info", 4303, 24),
      RegInfo("pv_info", 4327, 7), RegInfo("settings_status", 4398, 20),
      RegInfo("settings", 4441, 4), RegInfo("statistics", 4543, 25)>>

REGISTER_DEFINITIONS ==
    [t \in {CONTROLLER, BATTERY, INVERTER} |->
        CASE t = CONTROLLER -> CONTROLLER_REGISTERS
          [] t = BATTERY -> BATTERY_REGISTERS
          [] t = INVERTER -> INVERTER_REGISTERS]

\* get_registers_for_device: REGISTER_DEFINITIONS.get(device_type, []).
get_registers_for_device(device_type) ==
    IF device_type \in DOMAIN REGISTER_DEFINITIONS
    THEN REGISTER_DEFINITIONS[device_type]
    ELSE <<>>

\* DeviceConfig.get_device_type_enum; the device types of the inputs are in
\* lower case, as the configuration form gives them.
get_device_type_enum(config) ==
    IF config.device_type \notin {CONTROLLER, BATTERY, INVERTER}
    THEN Raise("ValueError")
    ELSE Return(config.device_type)

\* -------------------------------------------------------------- SpecPoll
\* Largest number of data bytes in a response a read returns.
MaxPollData == 8

\* The identities polled: one of each device type with its default unit id,
\* and a controller whose unit id the configuration form accepted although
\* it is no byte.
PollConfigs ==
    {DeviceConfig("Rover", "AA:BB", CONTROLLER, 255),
     DeviceConfig("Battery", "AA:CC", BATTERY, 247),
     DeviceConfig("Inverter", "AA:DD", INVERTER, 255),
     DeviceConfig("Rover 2", "AA:EE", CONTROLLER, 256)}

\* The unit id of another device answering on the same link.
OtherUnit(config) == IF config.device_id = 247 THEN 48 ELSE 247

\* The frames a read can return: read responses with their checksum, from
\* the device with no, two or MaxPollData data bytes, and from another unit
\* of the link; and a response of the device with one bit corrupted.
PollFrames(config) ==
    {Seal(Payload(config.device_id, 3, Fill(n, 1))) : n \in {0, 2, MaxPollData}}
    \cup {Seal(Payload(OtherUnit(config), 3, Fill(MaxPollData, 1)))}
    \cup {FlipBit(Seal(Payload(config.device_id, 3, Fill(2, 1))), 28)}

\* A read that raised instead of returning.
RaisedRet == [none |-> FALSE, bytes |-> <<>>, raised |-> "ValueError"]

\* What `await self.read_registers(...)` does: it returns None (no session,
\* failed write, no answer, short answer) or the bytes received; when the
\* request cannot be built, it returns None (the reconnect failed) or raises.
ReadResults(config, reg_info) ==
    {NoneRet}
    \cup (IF create_modbus_read_request(config.device_id, 3, reg_info.register,
                                       reg_info.words).kind = "raise"
         THEN {RaisedRet}
         ELSE {BytesRet(f) : f \in PollFrames(config)})

PollInit ==
    /\ HealthInit
    /\ ConnInit
    /\ PureIdle
    /\ device_configs = <<>>
    /\ MgrUnbuilt
    /\ ValidatorIdle
    /\ DetectIdle
    /\ ConnectAllIdle
    /\ CoordinatorIdle
    /\ pd_config \in PollConfigs
    /\ pd_pc = "idle"
    /\ pd_registers = <<>>
    /\ pd_i = 0
    /\ all_data = EmptyDict
    /\ pd_ret = Pending
    /\ pd_response = NoneRet
    /\ reads = <<>>
    /\ parses = <<>>

\* poll_device up to its loop: the catalog of the device type is looked up;
\* without one, {} is returned.
PollDeviceBegin ==
    /\ pd_pc = "idle"
    /\ LET device_type_enum == get_device_type_enum(pd_config) IN
       IF device_type_enum.kind = "raise"
       THEN /\ pd_pc' = "done"
            /\ pd_ret' = device_type_enum
            /\ UNCHANGED <<pd_registers, pd_i>>
       ELSE LET registers == get_registers_for_device(device_type_enum.value)
            IN  /\ pd_registers' = registers
                /\ IF registers = <<>>
                   THEN /\ pd_pc' = "done"
                        /\ pd_ret' = Return(EmptyDict)
                        /\ pd_i' = 0
                   ELSE /\ pd_pc' = "read"
                        /\ pd_ret' = Pending
                        /\ pd_i' = 1
    /\ all_data' = EmptyDict
    /\ UNCHANGED <<pd_config, pd_response, reads, parses>>
    /\ UNCHANGED notPollVars

\* The same check made without the device's unit id.
UsableAnyUnit(config, response) ==
    /\ ~response.none
    /\ response.bytes # <<>>
    /\ validate_modbus_response(response.bytes, Absent) = Return(TRUE)

\* `if response:` and `if validate_modbus_response(response, device_id):`.
Usable(config, response) ==
    /\ ~response.none
    /\ response.bytes # <<>>
    /\ validate_modbus_response(response.bytes, config.device_id)
          = Return(TRUE)

\* What the loop body does with a response: a validated response is parsed,
\* any other is logged and dropped.
Outcome(config, reg_info, response) ==
    IF response.none \/ response.bytes = <<>>
    THEN [outcome |-> "none", fields |-> EmptyDict]
    ELSE IF ~Usable(config, response)
    THEN [outcome |-> "invalid", fields |-> EmptyDict]
    ELSE [outcome |-> "parsed",
          fields |-> parse_response(PARSERS, config.device_type,
                                    reg_info.register, response.bytes).value]

\* The end of poll_device with the tags put on whatever all_data holds.
FinishTagsAlways(data, config) == Return(Tagged(data, config))

\* The end of poll_device: a non-empty all_data is tagged and returned.
Finish(data, config) ==
    IF Truthy(data) THEN Return(Tagged(data, config)) ELSE Return(data)

\* One iteration of `for reg_info in registers`: the read, then validate,
\* parse and merge, then the delay; after the last group the result is
\* tagged and returned. A read that raises ends poll_device with it.
PollDeviceGroup ==
    /\ pd_pc = "read"
    /\ LET reg_info == pd_registers[pd_i] IN
       \E response \in ReadResults(pd_config, reg_info) :
          /\ reads' = Append(reads, reg_info.register)
          /\ pd_response' = response
          /\ IF "raised" \in DOMAIN response
             THEN /\ pd_pc' = "done"
                  /\ pd_ret' = Raise(response.raised)
                  /\ UNCHANGED <<all_data, pd_i, parses>>
             ELSE LET out == Outcome(pd_config, reg_info, response)
                      merged == DictUpdate(all_data, out.fields)
                  IN  /\ all_data' = merged
                      /\ parses' = Append(parses, out)
                      /\ IF pd_i < Len(pd_registers)
                         THEN /\ pd_i' = pd_i + 1
                              /\ UNCHANGED <<pd_pc, pd_ret>>
                         ELSE /\ pd_pc' = "done"
                              /\ pd_ret' = Finish(merged, pd_config)
                              /\ UNCHANGED pd_i
    /\ UNCHANGED <<pd_config, pd_registers>>
    /\ UNCHANGED notPollVars

PollNext ==
    \/ PollDeviceBegin
    \/ PollDeviceGroup

SpecPoll == PollInit /\ [][PollNext]_vars

\* ----------------------------------------------------------- claims C13-C14
\* The registers of the catalog of the polled device's type, in its order.
CatalogRegisters ==
    LET catalog == get_registers_for_device(pd_config.device_type)
    IN  [i \in 1..Len(catalog) |-> catalog[i].register]

\* The fields the register groups of this call produced, later ones winning.
RECURSIVE MergeAll(_)
MergeAll(outs) ==
    IF outs = <<>> THEN EmptyDict
    ELSE DictUpdate(MergeAll(SubSeq(outs, 1, Len(outs) - 1)),
                    outs[Len(outs)].fields)

\* C13: poll_device issues exactly one read per register group of the
\* catalog, in catalog order: the reads made are always the first registers
\* of the catalog, and they are all of them once poll_device is over, whatever
\* the groups gave; only a response that validates for the device's unit id is
\* parsed, and all_data holds exactly what the parsed responses gave.
C13_OneReadPerGroupInOrder ==
    /\ Len(reads) <= Len(CatalogRegisters)
    /\ reads = SubSeq(CatalogRegisters, 1, Len(reads))
    /\ pd_pc = "done" => reads = CatalogRegisters
    /\ \A i \in DOMAIN parses :
          parses[i].outcome # "parsed" => parses[i].fields = EmptyDict
    /\ (pd_pc # "idle" /\ Len(parses) = Len(reads) /\ parses # <<>>)
          => (parses[Len(parses)].outcome = "parsed"
                <=> Usable(pd_config, pd_response))
    /\ pd_pc \in {"read", "done"} => all_data = MergeAll(parses)

\* C13 for the unit ids a request can be built for.
C13_OneReadPerGroupWhenBuilt ==
    IsByte(pd_config.device_id) => C13_OneReadPerGroupInOrder

\* poll_device is over although groups gave nothing: one read returned none,
\* one response failed validation, one parse yielded nothing, and a later
\* group was still parsed.
C13_WitnessWhenBuilt ==
    /\ pd_pc = "done"
    /\ pd_ret.kind = "return"
    /\ reads = CatalogRegisters
    /\ \E i, j, k, l \in DOMAIN parses :
          /\ i < l /\ j < l /\ k < l
          /\ parses[i].outcome = "none"
          /\ parses[j].outcome = "invalid"
          /\ parses[k].outcome = "parsed" /\ parses[k].fields = EmptyDict
          /\ parses[l].outcome = "parsed" /\ parses[l].fields # EmptyDict

\* poll_device has returned.
PollReturned == pd_pc = "done" /\ pd_ret.kind = "return"

\* Some register group of this call produced a parsed field.
SomeFieldParsed == \E i \in DOMAIN parses : parses[i].fields # EmptyDict

TagKeys == {"__device", "__mac_address", "__device_type"}

\* C14: the result of poll_device is empty exactly when no register group
\* produced a parsed field in this call; otherwise it is the merged fields
\* plus the three tags (device name, physical address, device type); an empty
\* result carries no tag.
C14_EmptyIffNothingParsed ==
    PollReturned =>
        /\ (pd_ret.value = EmptyDict) <=> ~SomeFieldParsed
        /\ SomeFieldParsed =>
              /\ DOMAIN pd_ret.value = DOMAIN MergeAll(parses) \cup TagKeys
              /\ \A k \in DOMAIN MergeAll(parses) :
                    pd_ret.value[k] = MergeAll(parses)[k]
              /\ pd_ret.value["__device"] = pd_config.name
              /\ pd_ret.value["__mac_address"] = pd_config.mac_address
              /\ pd_ret.value["__device_type"] = pd_config.device_type
        /\ ~SomeFieldParsed => DOMAIN pd_ret.value \cap TagKeys = {}

\* A poll whose every group failed has returned the empty result.
C14_Witness ==
    /\ PollReturned
    /\ Len(parses) > 1
    /\ ~SomeFieldParsed
    /\ pd_ret.value = EmptyDict

\* ========================================================= ble_validator
\* A limits entry (min, max, max_change_per_update).
Limit(min_val, max_val, max_change) ==
    [min_val |-> min_val, max_val |-> max_val, max_change |-> max_change]

_CONTROLLER_BASE_LIMITS ==
    "battery_voltage" :> Limit(0, 20, 5)
    @@ "battery_current" :> Limit(-100, 100, 50)
    @@ "battery_percentage" :> Limit(0, 100, 50)
    @@ "battery_temperature" :> Limit(-40, 85, 20)
    @@ "charging_amp_hours_today" :> Limit(0, 10000, 200)
    @@ "discharging_amp_hours_today" :> Limit(0, 10000, 200)
    @@ "pv_voltage" :> Limit(0, 30, 10)
    @@ "pv_current" :> Limit(0, 100, 50)
    @@ "pv_power" :> Limit(0, 5000, 2000)
    @@ "max_charging_power_today" :> Limit(0, 5000, 5000)
    @@ "power_generation_today" :> Limit(0, 50000, 50000)
    @@ "power_generation_total" :> Limit(0, 1000000000, 100000)
    @@ "load_voltage" :> Limit(0, 20, 20)
    @@ "load_current" :> Limit(0, 20, 20)
    @@ "load_power" :> Limit(0, 3000, 1500)
    @@ "power_consumption_today" :> Limit(0, 50000, 50000)
    @@ "max_discharging_power_today" :> Limit(0, 3000, 3000)
    @@ "controller_temperature" :> Limit(-40, 85, 20)

_VOLTAGE_SCALED_KEYS == {"battery_voltage", "pv_voltage", "load_voltage"}

\* No scaling with the system voltage.
MultiplierOne(system_voltage) == 1

\* max(system_voltage / 12, 1.0), for the system voltages that are multiples
\* of 12 and those below it.
Multiplier(system_voltage) ==
    IF system_voltage \div 12 >= 1 THEN system_voltage \div 12 ELSE 1

\* get_controller_validation_limits(system_voltage).
get_controller_validation_limits(system_voltage) ==
    [key \in DOMAIN _CONTROLLER_BASE_LIMITS |->
        LET base == _CONTROLLER_BASE_LIMITS[key] IN
        IF key \in _VOLTAGE_SCALED_KEYS
        THEN Limit(base.min_val, base.max_val * Multiplier(system_voltage),
                   base.max_change * Multiplier(system_voltage))
        ELSE base]

\* DataValidator._max_rejection_log.
MAX_REJECTION_LOG == 100

\* Values of a telemetry dict: numbers, and anything that is not
\* isinstance(value, (int, float)); and the None of dict.get.
Num(n) == [kind |-> "num", v |-> n]
Text == [kind |-> "text", v |-> 0]
NoValue == [kind |-> "none", v |-> 0]

\* An item of a dict, and a dict as its items in order.
KV(key, value) == [key |-> key, value |-> value]
Keys(items) == {items[i].key : i \in DOMAIN items}

\* abs(x).
Abs(x) == IF x < 0 THEN -x ELSE x

\* The rejection reason of one item by its change only, without its range.
rejection_reason_spike_only(limits, last_good, key, value) ==
    LET l == limits[key] IN
    IF key \in DOMAIN last_good
       /\ Abs(value - last_good[key]) > l.max_change
    THEN "spike_detected"
    ELSE None

\* The rejection reason of one item by its range only, without the
\* comparison with the last good value.
rejection_reason_range_only(limits, last_good, key, value) ==
    LET l == limits[key] IN
    IF value < l.min_val THEN "below_minimum"
    ELSE IF value > l.max_val THEN "above_maximum"
    ELSE None

\* validate_data: the rejection reason of one item, None when it has none.
rejection_reason(limits, last_good, key, value) ==
    LET l == limits[key] IN
    IF value < l.min_val THEN "below_minimum"
    ELSE IF value > l.max_val THEN "above_maximum"
    ELSE IF key \in DOMAIN last_good
            /\ Abs(value - last_good[key]) > l.max_change
    THEN "spike_detected"
    ELSE None

\* The loop skipping only the fields outside the catalog.
SkippedUnknownOnly(limits, item) == item.key \notin DOMAIN limits

\* validate_data: the items its loop skips.
Skipped(limits, item) ==
    item.key \notin DOMAIN limits \/ item.value.kind # "num"

\* The rejection dict with 0 for a last good value that is not there.
RejectionPriorZero(key, value, reason, last_good) ==
    [sensor |-> key, rejected_value |-> value, reason |-> reason,
     last_good_value |-> IF key \in DOMAIN last_good
                         THEN Num(last_good[key]) ELSE Num(0)]

\* The rejection dict (its timestamp left out).
Rejection(key, value, reason, last_good) ==
    [sensor |-> key, rejected_value |-> value, reason |-> reason,
     last_good_value |-> IF key \in DOMAIN last_good
                         THEN Num(last_good[key]) ELSE NoValue]

\* The log refusing a rejection once it is full.
_add_to_rejection_log_keeps_oldest(log, rejection) ==
    IF Len(log) >= MAX_REJECTION_LOG THEN log ELSE Append(log, rejection)

\* _add_to_rejection_log.
_add_to_rejection_log(log, rejection) ==
    LET appended == Append(log, rejection) IN
    IF Len(appended) > MAX_REJECTION_LOG
    THEN SubSeq(appended, Len(appended) - MAX_REJECTION_LOG + 1, Len(appended))
    ELSE appended

\* validate_data's loop over data.items(), from item i on: the state of the
\* validator and of the two locals after it.
RECURSIVE validate_loop(_, _, _, _)
validate_loop(limits, data, i, st) ==
    IF i > Len(data) THEN st
    ELSE LET key == data[i].key
             value == data[i].value
         IN  IF Skipped(limits, data[i])
             THEN validate_loop(limits, data, i + 1, st)
             ELSE LET reason == rejection_reason(limits, st.last_good, key,
                                                 value.v)
                  IN  IF reason # None
                      THEN LET rejection == Rejection(key, value, reason,
                                                      st.last_good)
                           IN validate_loop(limits, data, i + 1,
                                [st EXCEPT
                                    !.rejections = Append(@, rejection),
                                    !.log = _add_to_rejection_log(@, rejection),
                                    !.validated =
                                        IF key \in DOMAIN st.last_good
                                        THEN [@ EXCEPT ![i].value =
                                                  Num(st.last_good[key])]
                                        ELSE @])
                      ELSE validate_loop(limits, data, i + 1,
                                [st EXCEPT !.last_good =
                                    DictUpdate(@, key :> value.v)])

\* --------------------------------------------------------- SpecValidator
\* Largest number of validate_data calls on the validator.
MaxValidates == 3

ValidatorTypes == {CONTROLLER, BATTERY}
SystemVoltages == {12, 24, 48}

\* The readings validated: a catalog field whose limits scale with the
\* system voltage, with numbers below, within and above its limits, near and
\* far from each other, and a value that is no number; a catalog field whose
\* minimum is negative; and a numeric field outside the catalog.
ValidatorItems ==
    {KV("battery_voltage", x) :
        x \in {Num(-1), Num(12), Num(15), Num(18), Num(25), Text}}
    \cup {KV("battery_temperature", Num(n)) : n \in {-41, 20, 45}}
    \cup {KV("device_id", Num(16))}

\* The order in which the parsers put these fields in a telemetry dict.
KeyRank(key) ==
    CASE key = "device_id" -> 1
      [] key = "battery_voltage" -> 2
      [] key = "battery_temperature" -> 3

\* The telemetry dicts: no, one or two of the readings, of distinct fields.
ValidatorData ==
    {<<>>} \cup {<<x>> : x \in ValidatorItems}
    \cup {d \in {<<x, y>> : x \in ValidatorItems, y \in ValidatorItems} :
             KeyRank(d[1].key) < KeyRank(d[2].key)}

\* __init__ giving every device type the controller's limits.
init_limits_any_type(device_type, system_voltage) ==
    get_controller_validation_limits(system_voltage)

\* DataValidator.__init__: self._limits.
init_limits(device_type, system_voltage) ==
    IF device_type = CONTROLLER
    THEN get_controller_validation_limits(system_voltage)
    ELSE EmptyDict

\* DataValidator.__init__.
ValidatorInit ==
    /\ HealthInit
    /\ ConnInit
    /\ PollIdle
    /\ PureIdle
    /\ DetectIdle
    /\ ConnectAllIdle
    /\ CoordinatorIdle
    /\ device_configs = <<>>
    /\ MgrUnbuilt
    /\ dv_device_type \in ValidatorTypes
    /\ dv_system_voltage \in SystemVoltages
    /\ _limits = init_limits(dv_device_type, dv_system_voltage)
    /\ _last_good_values = EmptyDict
    /\ _rejection_log = <<>>
    /\ dv_data = <<>>
    /\ dv_return = Pending
    /\ dv_calls = 0
    /\ rejected = <<>>

\* validate_data(data).
Validate(data) ==
    /\ dv_data' = data
    /\ IF ~Truthy(_limits)
       THEN /\ dv_return' = Return([validated |-> data, rejections |-> <<>>])
            /\ UNCHANGED <<_last_good_values, _rejection_log, rejected>>
       ELSE LET st == validate_loop(_limits, data, 1,
                          [validated |-> data, rejections |-> <<>>,
                           last_good |-> _last_good_values,
                           log |-> _rejection_log])
            IN  /\ dv_return' = Return([validated |-> st.validated,
                                        rejections |-> st.rejections])
                /\ _last_good_values' = st.last_good
                /\ _rejection_log' = st.log
                /\ rejected' = rejected \o st.rejections
    /\ dv_calls' = dv_calls + 1
    /\ UNCHANGED <<dv_device_type, _limits, dv_system_voltage>>
    /\ UNCHANGED notValidatorVars

\* validate_data on one of the telemetry dicts.
ValidateData ==
    /\ dv_calls < MaxValidates
    /\ \E data \in ValidatorData : Validate(data)

ValidatorNext == ValidateData

SpecValidator == ValidatorInit /\ [][ValidatorNext]_vars

\* ---------------------------------------------------------------- claim C20
\* The call just made was on a validator with limits.
ValidatedNow == dv_calls' # dv_calls /\ Truthy(_limits)

\* The call just made rejected the reading of the field.
RejectedNow(key) ==
    \E k \in DOMAIN dv_return'.value.rejections :
        dv_return'.value.rejections[k].sensor = key

\* C20: in a controller validator, for each numeric reading of a catalog
\* field, in any sequence of validate calls: the reading is rejected exactly
\* if it is below min or above max, or else a last-known-good value exists and
\* the absolute change from it exceeds max_change; on rejection with a
\* last-known-good value the output holds that value and the last-known-good
\* value is unchanged; on acceptance the output holds the reading and the
\* reading is the new last-known-good value.
C20_RejectOrAccept ==
    [][ValidatedNow =>
        \A i \in DOMAIN dv_data' :
            LET key == dv_data'[i].key
                value == dv_data'[i].value
                out == dv_return'.value.validated[i]
                had == key \in DOMAIN _last_good_values
            IN  (key \in DOMAIN _limits /\ value.kind = "num") =>
                   /\ RejectedNow(key) <=>
                         \/ value.v < _limits[key].min_val
                         \/ value.v > _limits[key].max_val
                         \/ /\ had
                            /\ Abs(value.v - _last_good_values[key])
                                  > _limits[key].max_change
                   /\ (RejectedNow(key) /\ had) =>
                         /\ out = KV(key, Num(_last_good_values[key]))
                         /\ _last_good_values'[key] = _last_good_values[key]
                   /\ ~RejectedNow(key) =>
                         /\ out = KV(key, value)
                         /\ key \in DOMAIN _last_good_values'
                         /\ _last_good_values'[key] = value.v]_vars

\* With 12 the last good battery voltage, 18 has been rejected as a spike and
\* the output holds 12, which is still the last good value.
C20_Witness ==
    /\ dv_device_type = CONTROLLER
    /\ dv_return # Pending
    /\ \E i \in DOMAIN dv_data :
          /\ dv_data[i] = KV("battery_voltage", Num(18))
          /\ dv_return.value.validated[i] = KV("battery_voltage", Num(12))
    /\ \E k \in DOMAIN dv_return.value.rejections :
          dv_return.value.rejections[k] =
              [sensor |-> "battery_voltage", rejected_value |-> Num(18),
               reason |-> "spike_detected", last_good_value |-> Num(12)]
    /\ _last_good_values["battery_voltage"] = 12

\* ----------------------------------------------------------- claims C21-C25
\* The rejections the call just made recorded for the field.
RejectionsNow(key) ==
    {k \in DOMAIN dv_return'.value.rejections :
        dv_return'.value.rejections[k].sensor = key}

\* C21: when a catalog field has no last-known-good value and its reading is
\* below min or above max, validate leaves the reading as it is in the output,
\* records one rejection, whose prior good value is absent, and establishes no
\* last-known-good value for the field.
C21_NoPriorKeepsReading ==
    [][ValidatedNow =>
        \A i \in DOMAIN dv_data' :
            LET key == dv_data'[i].key
                value == dv_data'[i].value
            IN  (/\ key \in DOMAIN _limits
                 /\ value.kind = "num"
                 /\ key \notin DOMAIN _last_good_values
                 /\ \/ value.v < _limits[key].min_val
                    \/ value.v > _limits[key].max_val) =>
                   /\ Len(dv_return'.value.validated) = Len(dv_data')
                   /\ dv_return'.value.validated[i] = dv_data'[i]
                   /\ Cardinality(RejectionsNow(key)) = 1
                   /\ \A k \in RejectionsNow(key) :
                         /\ dv_return'.value.rejections[k].rejected_value = value
                         /\ dv_return'.value.rejections[k].last_good_value
                               = NoValue
                   /\ key \notin DOMAIN _last_good_values']_vars

\* A first battery voltage of 25 V on a 12 V controller has been rejected: the
\* output still holds 25, and there is no last good battery voltage.
C21_Witness ==
    /\ dv_device_type = CONTROLLER
    /\ dv_system_voltage = 12
    /\ dv_return # Pending
    /\ \E i \in DOMAIN dv_data :
          /\ dv_data[i] = KV("battery_voltage", Num(25))
          /\ dv_return.value.validated[i] = KV("battery_voltage", Num(25))
    /\ \E k \in DOMAIN dv_return.value.rejections :
          dv_return.value.rejections[k] =
              [sensor |-> "battery_voltage", rejected_value |-> Num(25),
               reason |-> "above_maximum", last_good_value |-> NoValue]
    /\ "battery_voltage" \notin DOMAIN _last_good_values

\* C23: for a device type other than controller, validate returns the input
\* telemetry unchanged with no rejections, and changes neither the
\* last-known-good values nor the rejection history.
C23_OtherTypesPassThrough ==
    [][(dv_calls' # dv_calls /\ dv_device_type # CONTROLLER) =>
        /\ dv_return' = Return([validated |-> dv_data', rejections |-> <<>>])
        /\ _last_good_values' = _last_good_values
        /\ _last_good_values' = EmptyDict
        /\ _rejection_log' = _rejection_log
        /\ _rejection_log' = <<>>]_vars

\* A battery's validator has passed a battery voltage of 25 V through, after
\* an earlier call.
C23_Witness ==
    /\ dv_device_type = BATTERY
    /\ dv_calls > 1
    /\ Len(dv_data) = 2
    /\ dv_data[1] = KV("battery_voltage", Num(25))
    /\ dv_return = Return([validated |-> dv_data, rejections |-> <<>>])
    /\ _last_good_values = EmptyDict
    /\ _rejection_log = <<>>

\* The last-known-good value of the field, or that there is none, is the same
\* before and after the step.
SameLastGood(key) ==
    /\ key \in DOMAIN _last_good_values' <=> key \in DOMAIN _last_good_values
    /\ key \in DOMAIN _last_good_values =>
          _last_good_values'[key] = _last_good_values[key]

\* C24: in a controller validator, a field that is not in the catalog, or
\* whose value is not numeric, is in the output with exactly its input value,
\* produces no rejection and leaves every last-known-good value as it was;
\* and the last-known-good value of a field that is not validated is not
\* changed by validating other fields.
C24_SkippedFieldsUntouched ==
    [][ValidatedNow =>
        /\ \A i \in DOMAIN dv_data' :
              LET key == dv_data'[i].key
                  value == dv_data'[i].value
              IN  (key \notin DOMAIN _limits \/ value.kind # "num") =>
                     /\ dv_return'.value.validated[i] = dv_data'[i]
                     /\ RejectionsNow(key) = {}
                     /\ SameLastGood(key)
        /\ \A key \in DOMAIN _limits \cup DOMAIN _last_good_values' :
              (\A i \in DOMAIN dv_data' :
                   dv_data'[i].key = key => dv_data'[i].value.kind # "num")
                 => SameLastGood(key)]_vars

\* With 12 the last good battery voltage, a dict with a device id and a battery
\* voltage that is no number has been validated: it is returned as it was,
\* nothing is rejected, and 12 is still the only last good value.
C24_Witness ==
    /\ dv_device_type = CONTROLLER
    /\ dv_data = <<KV("device_id", Num(16)), KV("battery_voltage", Text)>>
    /\ dv_return = Return([validated |-> dv_data, rejections |-> <<>>])
    /\ _last_good_values = ("battery_voltage" :> 12)

\* The factor the claim gives for a system voltage.
ClaimedFactor(system_voltage) ==
    CASE system_voltage = 12 -> 1
      [] system_voltage = 24 -> 2
      [] system_voltage = 48 -> 4

\* C25: the controller limits for system voltage 12, 24 and 48 multiply max
\* and max_change of battery_voltage, pv_voltage and load_voltage by 1, 2 and
\* 4, and leave min and every other field's limits equal to the 12 V base;
\* limits(24)[battery_voltage] = (0, 40, 10) and
\* limits(48)[battery_voltage] = (0, 80, 20).
C25_LimitsScale ==
    (dv_device_type = CONTROLLER /\ dv_system_voltage \in {12, 24, 48}) =>
        /\ DOMAIN _limits = DOMAIN _CONTROLLER_BASE_LIMITS
        /\ \A key \in DOMAIN _limits :
              LET base == _CONTROLLER_BASE_LIMITS[key]
                  k == ClaimedFactor(dv_system_voltage)
              IN  /\ _limits[key].min_val = base.min_val
                  /\ IF key \in {"battery_voltage", "pv_voltage", "load_voltage"}
                     THEN /\ _limits[key].max_val = k * base.max_val
                          /\ _limits[key].max_change = k * base.max_change
                     ELSE _limits[key] = base
        /\ dv_system_voltage = 12 =>
              _limits["battery_voltage"] = Limit(0, 20, 5)
        /\ dv_system_voltage = 24 =>
              _limits["battery_voltage"] = Limit(0, 40, 10)
        /\ dv_system_voltage = 48 =>
              _limits["battery_voltage"] = Limit(0, 80, 20)

\* A 48 V controller's validator, with limits (0, 80, 20) for the battery
\* voltage, has accepted a first battery voltage of 25 V.
C25_Witness ==
    /\ dv_device_type = CONTROLLER
    /\ dv_system_voltage = 48
    /\ _limits["battery_voltage"] = Limit(0, 80, 20)
    /\ dv_calls = 1
    /\ dv_data = <<KV("battery_voltage", Num(25))>>
    /\ _last_good_values = ("battery_voltage" :> 25)

\* ---------------------------------------------------------------- SpecLog
\* Largest number of validate_data calls on the validator whose log is filled.
MaxLogCalls == 103

\* The telemetry validated while the log is filled: a battery voltage above
\* the maximum, one volt higher at each rejection so that the entries of the
\* log differ; or a battery voltage that is accepted.
LogData ==
    {<<KV("battery_voltage", Num(21 + Len(rejected)))>>,
     <<KV("battery_voltage", Num(12))>>}

\* DataValidator("...", "controller").
LogInit ==
    /\ HealthInit
    /\ ConnInit
    /\ PollIdle
    /\ PureIdle
    /\ DetectIdle
    /\ ConnectAllIdle
    /\ CoordinatorIdle
    /\ device_configs = <<>>
    /\ MgrUnbuilt
    /\ dv_device_type = CONTROLLER
    /\ dv_system_voltage = 12
    /\ _limits = init_limits(dv_device_type, dv_system_voltage)
    /\ _last_good_values = EmptyDict
    /\ _rejection_log = <<>>
    /\ dv_data = <<>>
    /\ dv_return = Pending
    /\ dv_calls = 0
    /\ rejected = <<>>

\* validate_data on one reading.
ValidateReading ==
    /\ dv_calls < MaxLogCalls
    /\ \E data \in LogData : Validate(data)

\* clear_rejection_log.
ClearRejectionLog ==
    /\ _rejection_log' = <<>>
    /\ rejected' = <<>>
    /\ UNCHANGED <<dv_device_type, _limits, _last_good_values, dv_data,
                   dv_return, dv_calls, dv_system_voltage>>
    /\ UNCHANGED notValidatorVars

LogNext ==
    \/ ValidateReading
    \/ ClearRejectionLog

SpecLog == LogInit /\ [][LogNext]_vars

\* ---------------------------------------------------------------- claim C22
\* The last n elements of a sequence.
LastN(seq, n) == SubSeq(seq, Len(seq) - n + 1, Len(seq))

\* C22: after any sequence of rejections the rejection history holds at most
\* 100 entries, and it is exactly the most recent min(n, 100) of the n
\* rejections made, in the order they occurred: past the cap the oldest
\* entries are the ones evicted.
C22_LogKeepsNewestHundred ==
    /\ Len(_rejection_log) <= 100
    /\ _rejection_log =
          LastN(rejected, IF Len(rejected) < 100 THEN Len(rejected) ELSE 100)

\* 102 rejections have been made: the log holds the last hundred of them, the
\* third rejection first.
C22_Witness ==
    /\ Len(rejected) = 102
    /\ Len(_rejection_log) = 100
    /\ _rejection_log[1] = rejected[3]
    /\ _rejection_log[1] # rejected[1]
    /\ _rejection_log[100] = rejected[102]

\* ============================================================ ble_detector
\* The probes of async_detect_device_type, in the order of its code: the
\* classification a valid response gives, and the request read.
Probe(kind, unit, register, words) ==
    [kind |-> kind, unit |-> unit, register |-> register, words |-> words]

ProbesBatteryFirst ==
    <<Probe(BATTERY, 247, 5122, 6), Probe(CONTROLLER, 255, 12, 8),
      Probe(BATTERY, 255, 5122, 6)>>

Probes ==
    <<Probe(CONTROLLER, 255, 12, 8), Probe(BATTERY, 247, 5122, 6),
      Probe(BATTERY, 255, 5122, 6)>>

\* _read_register: expected_len = 3 + (words * 2) + 2.
expected_len(words) == 3 + (words * 2) + 2

\* (None, None).
Unknown == <<None, None>>

\* _read_register returning what is buffered once 5 bytes are there.
FrameInPartial(data, words) ==
    IF Len(data) >= 5
    THEN BytesRet(SubSeq(data, 1, Len(data)))
    ELSE NoneRet

\* _read_register after a wake-up: the error frame or the full frame that
\* response_data holds, None (as NoneRet) when it holds neither yet.
FrameIn(data, words) ==
    IF Len(data) >= 5 /\ data[2] >= 128
    THEN BytesRet(SubSeq(data, 1, 5))
    ELSE IF Len(data) >= expected_len(words)
    THEN BytesRet(SubSeq(data, 1, expected_len(words)))
    ELSE NoneRet

\* `if resp and validate_modbus_response(resp, device_id)`.
ProbeValid(resp, unit) ==
    /\ ~resp.none
    /\ resp.bytes # <<>>
    /\ validate_modbus_response(resp.bytes, unit) = Return(TRUE)

\* -------------------------------------------------------------- SpecDetect
\* Largest number of notifications delivered during one detection.
MaxNotes == 3

\* What the transport delivers in a notification: the answer of a controller
\* to the first probe, whole, in two fragments, or corrupted; the answers of a
\* battery at unit id 247 and at unit id 255; an error frame.
DetectFrame(unit, words) == Seal(Payload(unit, 3, Fill(2 * words, 0)))
DetectFragments ==
    {DetectFrame(255, 8),
     SubSeq(DetectFrame(255, 8), 1, 3),
     SubSeq(DetectFrame(255, 8), 4, 21),
     FlipBit(DetectFrame(255, 8), 28),
     DetectFrame(247, 6),
     DetectFrame(255, 6),
     Seal(<<255, 131, 2>>)}

DetectInit ==
    /\ HealthInit
    /\ ConnInit
    /\ PollIdle
    /\ PureIdle
    /\ ValidatorIdle
    /\ device_configs = <<>>
    /\ MgrUnbuilt
    /\ DetectEntered
    /\ ConnectAllIdle
    /\ CoordinatorIdle

\* `finally`, entered with the value to return: the session is cleaned up if
\* client.is_connected; naming notify_char before it was assigned raises,
\* which `except Exception: pass` swallows.
Finally(result) ==
    /\ det_result' = result
    /\ IF det_link.open /\ det_bound
       THEN /\ det_pc' = "unsub"
            /\ UNCHANGED det_ret
       ELSE /\ det_pc' = "done"
            /\ det_ret' = Return(result)

\* _read_register is entered for probe n: buffer and event are cleared, the
\* request is built and its write awaited.
BeginProbe(n) ==
    /\ det_probe' = n
    /\ det_sent' = Append(det_sent, Probes[n])
    /\ det_data' = <<>>
    /\ det_event' = FALSE
    /\ det_pc' = "write"

\* _read_register returns resp: a valid response classifies the device, any
\* other leads to the next probe, or to the end after the last.
ProbeEnds(resp) ==
    LET probe == Probes[det_probe]
        valid == ProbeValid(resp, probe.unit)
    IN  /\ det_outcomes' = Append(det_outcomes, [resp |-> resp, valid |-> valid])
        /\ IF valid
           THEN /\ Finally(<<probe.kind, probe.unit>>)
                /\ UNCHANGED <<det_probe, det_data, det_event, det_sent>>
           ELSE IF det_probe < Len(Probes)
           THEN /\ BeginProbe(det_probe + 1)
                /\ UNCHANGED <<det_result, det_ret>>
           ELSE /\ Finally(Unknown)
                /\ UNCHANGED <<det_probe, det_data, det_event, det_sent>>

\* async_ble_device_from_address finds no device: (None, None) is returned.
DetectNotFound ==
    /\ det_pc = "start"
    /\ det_pc' = "done"
    /\ det_result' = Unknown
    /\ det_ret' = Return(Unknown)
    /\ UNCHANGED <<det_link, det_opened, det_bound, det_probe, det_data,
                   det_event, det_sent, det_outcomes, det_expired, det_notes>>
    /\ UNCHANGED notDetectVars

\* The device is found: the client is made, the timeout block entered and
\* client.connect() awaited.
DetectConnect ==
    /\ det_pc = "start"
    /\ det_pc' = "connect"
    /\ UNCHANGED <<det_link, det_opened, det_bound, det_probe, det_data,
                   det_event, det_sent, det_outcomes, det_expired, det_result,
                   det_ret, det_notes>>
    /\ UNCHANGED notDetectVars

\* The transport opens the session while client.connect() is still awaited.
ConnectLinkUp ==
    /\ det_pc = "connect"
    /\ ~det_opened
    /\ det_link' = [det_link EXCEPT !.open = TRUE]
    /\ det_opened' = TRUE
    /\ UNCHANGED <<det_pc, det_bound, det_probe, det_data, det_event, det_sent,
                   det_outcomes, det_expired, det_result, det_ret, det_notes>>
    /\ UNCHANGED notDetectVars

\* client.connect() returns True: the characteristics are looked up and
\* start_notify awaited.
ConnectReturnsTrue ==
    /\ det_pc = "connect"
    /\ det_link.open
    /\ det_bound' = TRUE
    /\ det_pc' = "subscribe"
    /\ UNCHANGED <<det_link, det_opened, det_probe, det_data, det_event,
                   det_sent, det_outcomes, det_expired, det_result, det_ret,
                   det_notes>>
    /\ UNCHANGED notDetectVars

\* client.connect() returns False or raises: (None, None), through `finally`.
ConnectFails ==
    /\ det_pc = "connect"
    /\ ~det_link.open
    /\ Finally(Unknown)
    /\ UNCHANGED <<det_link, det_opened, det_bound, det_probe, det_data,
                   det_event, det_sent, det_outcomes, det_expired, det_notes>>
    /\ UNCHANGED notDetectVars

\* start_notify returns: the first probe begins.
SubscribeReturns ==
    /\ det_pc = "subscribe"
    /\ det_link.open
    /\ det_link' = [det_link EXCEPT !.notifying = TRUE]
    /\ BeginProbe(1)
    /\ UNCHANGED <<det_opened, det_bound, det_outcomes, det_expired,
                   det_result, det_ret, det_notes>>
    /\ UNCHANGED notDetectVars

\* start_notify raises.
SubscribeRaises ==
    /\ det_pc = "subscribe"
    /\ Finally(Unknown)
    /\ UNCHANGED <<det_link, det_opened, det_bound, det_probe, det_data,
                   det_event, det_sent, det_outcomes, det_expired, det_notes>>
    /\ UNCHANGED notDetectVars

\* write_gatt_char returns: the response is waited for.
WriteReturns ==
    /\ det_pc = "write"
    /\ det_link.open
    /\ det_pc' = "wait"
    /\ UNCHANGED <<det_link, det_opened, det_bound, det_probe, det_data,
                   det_event, det_sent, det_outcomes, det_expired, det_result,
                   det_ret, det_notes>>
    /\ UNCHANGED notDetectVars

\* write_gatt_char raises: _read_register returns None.
WriteRaises ==
    /\ det_pc = "write"
    /\ ProbeEnds(NoneRet)
    /\ UNCHANGED <<det_link, det_opened, det_bound, det_expired, det_notes>>
    /\ UNCHANGED notDetectVars

\* notification_handler: the transport delivers a fragment while the task is
\* at an await of a probe.
DetectNotify ==
    /\ det_pc \in {"write", "wait"}
    /\ det_link.open /\ det_link.notifying
    /\ det_notes < MaxNotes
    /\ \E fragment \in DetectFragments :
          det_data' = det_data \o fragment
    /\ det_event' = TRUE
    /\ det_notes' = det_notes + 1
    /\ UNCHANGED <<det_pc, det_link, det_opened, det_bound, det_probe, det_sent,
                   det_outcomes, det_expired, det_result, det_ret>>
    /\ UNCHANGED notDetectVars

\* notification_event.wait() returns: the event is cleared and response_data
\* looked at; without a frame in it the loop waits again.
ProbeWake ==
    /\ det_pc = "wait"
    /\ det_event
    /\ LET resp == FrameIn(det_data, Probes[det_probe].words) IN
       IF resp.none
       THEN /\ det_event' = FALSE
            /\ UNCHANGED <<det_pc, det_probe, det_data, det_sent,
                           det_outcomes, det_result, det_ret>>
       ELSE ProbeEnds(resp)
    /\ UNCHANGED <<det_link, det_opened, det_bound, det_expired, det_notes>>
    /\ UNCHANGED notDetectVars

\* RESPONSE_TIMEOUT expires: _read_register returns None.
ProbeTimeout ==
    /\ det_pc = "wait"
    /\ ProbeEnds(NoneRet)
    /\ UNCHANGED <<det_link, det_opened, det_bound, det_expired, det_notes>>
    /\ UNCHANGED notDetectVars

\* DETECTION_TIMEOUT expires at an await of the timeout block: TimeoutError
\* is caught and (None, None) returned, through `finally`.
DetectTimeout ==
    /\ det_pc \in {"connect", "subscribe", "write", "wait"}
    /\ det_expired' = TRUE
    /\ Finally(Unknown)
    /\ UNCHANGED <<det_link, det_opened, det_bound, det_probe, det_data,
                   det_event, det_sent, det_outcomes, det_notes>>
    /\ UNCHANGED notDetectVars

\* `finally`: stop_notify returns, disconnect is awaited.
UnsubscribeReturns ==
    /\ det_pc = "unsub"
    /\ det_link' = [det_link EXCEPT !.notifying = FALSE]
    /\ det_pc' = "disc"
    /\ UNCHANGED <<det_opened, det_bound, det_probe, det_data, det_event,
                   det_sent, det_outcomes, det_expired, det_result, det_ret,
                   det_notes>>
    /\ UNCHANGED notDetectVars

\* `finally`: stop_notify raises; `except Exception: pass` ends the cleanup.
UnsubscribeRaises ==
    /\ det_pc = "unsub"
    /\ det_pc' = "done"
    /\ det_ret' = Return(det_result)
    /\ UNCHANGED <<det_link, det_opened, det_bound, det_probe, det_data,
                   det_event, det_sent, det_outcomes, det_expired, det_result,
                   det_notes>>
    /\ UNCHANGED notDetectVars

\* `finally`: disconnect returns, the session is closed.
DisconnectReturns ==
    /\ det_pc = "disc"
    /\ det_link' = LinkClosed
    /\ det_pc' = "done"
    /\ det_ret' = Return(det_result)
    /\ UNCHANGED <<det_opened, det_bound, det_probe, det_data, det_event,
                   det_sent, det_outcomes, det_expired, det_result, det_notes>>
    /\ UNCHANGED notDetectVars

\* `finally`: disconnect raises; `except Exception: pass`.
DisconnectRaises ==
    /\ det_pc = "disc"
    /\ det_pc' = "done"
    /\ det_ret' = Return(det_result)
    /\ UNCHANGED <<det_link, det_opened, det_bound, det_probe, det_data,
                   det_event, det_sent, det_outcomes, det_expired, det_result,
                   det_notes>>
    /\ UNCHANGED notDetectVars

\* The transport loses the session.
DetectLinkDrop ==
    /\ det_pc \notin {"start", "done"}
    /\ det_link.open
    /\ det_link' = LinkClosed
    /\ UNCHANGED <<det_pc, det_opened, det_bound, det_probe, det_data,
                   det_event, det_sent, det_outcomes, det_expired, det_result,
                   det_ret, det_notes>>
    /\ UNCHANGED notDetectVars

\* The steps the task takes by itself once it can run.
DetectTaskStep ==
    \/ DetectNotFound
    \/ DetectConnect
    \/ ProbeWake

\* The timers.
DetectTimers ==
    \/ ProbeTimeout
    \/ DetectTimeout

\* What the transport does or does not do.
DetectTransport ==
    \/ ConnectLinkUp
    \/ ConnectReturnsTrue
    \/ ConnectFails
    \/ SubscribeReturns
    \/ SubscribeRaises
    \/ WriteReturns
    \/ WriteRaises
    \/ DetectNotify
    \/ UnsubscribeReturns
    \/ UnsubscribeRaises
    \/ DisconnectReturns
    \/ DisconnectRaises
    \/ DetectLinkDrop

DetectNext ==
    \/ DetectTaskStep
    \/ DetectTimers
    \/ DetectTransport

SpecDetect == DetectInit /\ [][DetectNext]_vars

\* ENABLED <<ProbeWake>>_vars: the task waits and the event is set (either
\* branch of ProbeWake changes the state).
ProbeWakeEnabled == det_pc = "wait" /\ det_event

\* The timers expire and the task runs when it can; nothing makes the
\* transport answer. The second conjunct is WF_vars(ProbeWake), written with
\* its enabling condition.
DetectFairness ==
    /\ WF_vars(DetectNotFound \/ DetectConnect)
    /\ ([]<>(~ProbeWakeEnabled) \/ []<><<ProbeWake>>_vars)
    /\ WF_vars(ProbeTimeout)
    /\ WF_vars(DetectTimeout)

SpecDetectLive == DetectInit /\ [][DetectNext]_vars /\ DetectFairness

\* ----------------------------------------------------------- claims C26-C28
\* C26: once the transient session has been opened, the detector tears it
\* down on every exit path: it never ends with the session still open unless
\* it has unsubscribed and has called disconnect(), whatever ended the
\* detection (a classification, exhausted probes, the overall timeout, an
\* exception, also one raised by the unsubscribe step or a timeout before the
\* subscription was set up).
C26_SessionTornDown ==
    [][(det_pc # "done" /\ det_pc' = "done" /\ det_opened /\ det_link.open)
          => (det_pc = "disc" /\ ~det_link.notifying)]_vars

\* The probes of the claim, in its order.
ClaimedProbes ==
    <<[kind |-> "controller", unit |-> 255, register |-> 12],
      [kind |-> "battery", unit |-> 247, register |-> 5122],
      [kind |-> "battery", unit |-> 255, register |-> 5122]>>

\* The probes ended whose response validated.
ValidProbes == {k \in DOMAIN det_outcomes : det_outcomes[k].valid}

\* C27: the detector probes in the order controller read (unit id 255,
\* address 12), battery read (address 5122) at unit id 247, battery read at
\* unit id 255; it returns the classification of the first probe whose
\* response validates and sends no probe after it; its result is one of
\* (controller, 255), (battery, 247), (battery, 255) and (unknown, unknown),
\* the last exactly when no probe validated.
C27_ProbeOrderAndResult ==
    /\ Len(det_sent) <= 3
    /\ \A k \in DOMAIN det_sent :
          /\ det_sent[k].unit = ClaimedProbes[k].unit
          /\ det_sent[k].register = ClaimedProbes[k].register
    /\ Len(det_outcomes) <= Len(det_sent)
    /\ \A k \in DOMAIN det_outcomes :
          det_outcomes[k].valid <=>
              /\ ~det_outcomes[k].resp.none
              /\ validate_modbus_response(det_outcomes[k].resp.bytes,
                                          ClaimedProbes[k].unit) = Return(TRUE)
    /\ \A k \in ValidProbes : Len(det_sent) = k
    /\ det_pc = "done" =>
          /\ det_ret.kind = "return"
          /\ det_ret.value \in {<<"controller", 255>>, <<"battery", 247>>,
                                <<"battery", 255>>, <<None, None>>}
          /\ (det_ret.value = <<None, None>>) <=> (ValidProbes = {})
          /\ \A k \in ValidProbes :
                det_ret.value = <<ClaimedProbes[k].kind, ClaimedProbes[k].unit>>

\* The third probe validated after the first two did not: (battery, 255).
C27_Witness ==
    /\ det_pc = "done"
    /\ Len(det_sent) = 3
    /\ ValidProbes = {3}
    /\ det_ret = Return(<<"battery", 255>>)

\* C28: device-type detection always terminates, its waits being bounded by
\* the per-probe timeout and the overall detection timeout, and it returns
\* instead of raising: (unknown, unknown) when the overall timeout expires,
\* the device is not found, the session cannot be opened or the transport
\* fails.
C28_DetectionTerminates ==
    /\ <>(det_pc = "done")
    /\ [](det_ret.kind \in {"pending", "return"})
    /\ []((det_pc = "done" /\ (det_expired \/ ~det_opened))
             => det_ret = Return(<<None, None>>))

\* The part of C28 that the two timeouts give: the timeout block is always
\* left, for `finally` or for the end of the detection.
C28_TimeoutBlockIsLeft == <>(det_pc \in {"unsub", "disc", "done"})


\* =============================================== BLEDeviceManager.connect_all
\* connection.connect() has returned ok: `connected += 1` or the error log,
\* then `await asyncio.sleep(3.0)`.
ConnectReturnedAborts(ok) ==
    /\ connected' = IF ok THEN connected + 1 ELSE connected
    /\ IF ok
       THEN ca_pc' = "sleep" /\ ca_ret' = ca_ret
       ELSE ca_pc' = "done" /\ ca_ret' = Return(connected)

ConnectReturned(ok) ==
    /\ connected' = IF ok THEN connected + 1 ELSE connected
    /\ ca_pc' = "sleep"
    /\ ca_ret' = ca_ret

\* ----------------------------------------------------------- SpecConnectAll
\* A manager built from any identity list of up to MaxDevices entries, its
\* links up or down, and no call made yet.
ConnectAllInit ==
    /\ HealthInit
    /\ ConnInit
    /\ PollIdle
    /\ PureIdle
    /\ ValidatorIdle
    /\ DetectIdle
    /\ device_configs \in SeqsUpTo(ConfigUniverse, MaxDevices)
    /\ constructed = TRUE
    /\ _connections = init_connections(device_configs)
    /\ _device_data = init_device_data(device_configs)
    /\ link_up \in [ConnectionMacs(_connections) -> BOOLEAN]
    /\ outcome = [k \in DOMAIN _device_data |-> NoOutcome]
    /\ fail_run = [k \in DOMAIN _device_data |-> 0]
    /\ on_data_callback = FALSE
    /\ MgrIdle
    /\ ConnectAllIdle
    /\ CoordinatorIdle

\* connect_all is entered: `connected = 0`, and the loop is at the first
\* connection, or `return connected` without one.
ConnectAllStart ==
    /\ ca_pc = "idle"
    /\ connected' = 0
    /\ ca_calls' = <<>>
    /\ IF Len(_connections) = 0
       THEN /\ ca_pc' = "done"
            /\ ca_link' = 0
            /\ ca_ret' = Return(0)
       ELSE /\ ca_pc' = "connect"
            /\ ca_link' = 1
            /\ ca_ret' = Pending
    /\ UNCHANGED mgrVars
    /\ UNCHANGED notConnectAllVars

\* `await connection.connect()` returns: true at once on a link that is up,
\* else true with the link brought up or false with the link down.
ConnectAllConnect ==
    /\ ca_pc = "connect"
    /\ \E ok \in BOOLEAN :
          /\ link_up[_connections[ca_link].mac] => ok
          /\ link_up' = [link_up EXCEPT ![_connections[ca_link].mac] = ok]
          /\ ca_calls' = Append(ca_calls,
                                [mac |-> _connections[ca_link].mac,
                                 returned |-> ok])
          /\ ConnectReturned(ok)
    /\ UNCHANGED ca_link
    /\ UNCHANGED <<device_configs, constructed, _connections, _device_data,
                   on_data_callback, cycle, pa_pc, pa_link, pa_dev, pa_data,
                   results, outcome, fail_run>>
    /\ UNCHANGED notConnectAllVars

\* `await asyncio.sleep(3.0)` returns: the next connection, or
\* `return connected` after the last.
ConnectAllSleep ==
    /\ ca_pc = "sleep"
    /\ IF ca_link < Len(_connections)
       THEN /\ ca_link' = ca_link + 1
            /\ ca_pc' = "connect"
            /\ ca_ret' = ca_ret
       ELSE /\ ca_link' = ca_link
            /\ ca_pc' = "done"
            /\ ca_ret' = Return(connected)
    /\ UNCHANGED <<connected, ca_calls>>
    /\ UNCHANGED mgrVars
    /\ UNCHANGED notConnectAllVars

\* The transport loses a link while connect_all is under way.
ConnectAllLinkDrop ==
    /\ ca_pc \in {"connect", "sleep"}
    /\ \E m \in DOMAIN link_up :
          /\ link_up[m]
          /\ link_up' = [link_up EXCEPT ![m] = FALSE]
    /\ UNCHANGED <<device_configs, constructed, _connections, _device_data,
                   on_data_callback, cycle, pa_pc, pa_link, pa_dev, pa_data,
                   results, outcome, fail_run>>
    /\ UNCHANGED connectAllVars
    /\ UNCHANGED notConnectAllVars

ConnectAllNext ==
    \/ ConnectAllStart
    \/ ConnectAllConnect
    \/ ConnectAllSleep
    \/ ConnectAllLinkDrop

SpecConnectAll == ConnectAllInit /\ [][ConnectAllNext]_vars

\* ------------------------------------------------------------------ claim C29
\* The connect() calls that returned true.
Succeeded == {i \in DOMAIN ca_calls : ca_calls[i].returned}

\* C29: connect_all calls connect() exactly once on every connection, in the
\* manager's enumeration order, goes on with the remaining connections after
\* one fails, and returns the number of connections whose connect() returned
\* true.
C29_ConnectAllCountsSuccesses ==
    /\ Len(ca_calls) <= Len(_connections)
    /\ \A i \in DOMAIN ca_calls : ca_calls[i].mac = _connections[i].mac
    /\ ca_pc = "done" =>
          /\ Len(ca_calls) = Len(_connections)
          /\ ca_ret = Return(Cardinality(Succeeded))

\* The first connection fails and the second, still called, succeeds: 1.
C29_Witness ==
    /\ ca_pc = "done"
    /\ Len(_connections) = 2
    /\ Succeeded = {2}
    /\ ca_ret = Return(1)


\* ------------------------------------------------------------------ claim C30
\* connect() of caller t succeeds in this step: start_notify has returned,
\* self._connected = True, `return True`.
ConnectSucceeds(t) ==
    /\ task[t].cpc = "subscribing"
    /\ task'[t].cpc = "returned"
    /\ task'[t].cret = "true"

\* C30: a transport disconnect event forces the connection to Disconnected
\* from any state (idle, connecting, awaiting a response), and from the event
\* on is_connected is false until a later connect() succeeds: the event
\* clears the connected flag, the flag is set again only in a step in which
\* a connect() succeeds, and is_connected is never true without the flag.
C30_DisconnectEventForcesDisconnected ==
    [][/\ DisconnectEvent => (~_connected' /\ ~is_connected')
       /\ (~_connected /\ _connected') => \E t \in Tasks : ConnectSucceeds(t)
       /\ is_connected' => _connected']_vars

\* The session was lost while a caller awaits a response: the client object
\* is still there, its session and the connected flag are not.
C30_Witness ==
    /\ \E t \in Tasks : task[t].pc = "wait"
    /\ client # None
    /\ ~client_up
    /\ ~_connected
    /\ ~is_connected


\* ------------------------------------------------------------------ claim C31
\* How a cycle accounts a device that poll_device was called for.
Polled == {"ok", "empty", "exception", "cb_raise"}

\* The visit of the current link ends in this step.
LinkVisitEnds ==
    /\ pa_pc = "link"
    /\ pa_pc' # "link" \/ pa_link' # pa_link

\* C31: a link that was disconnected, or whose reconnect failed, in one
\* poll_all cycle is retried in the next without any reset by the caller:
\* whenever a cycle comes to a link that is down it calls connect() on it,
\* also after the cycle before found it unreachable; and when that connect()
\* succeeds, every logical device of the link is polled in the same cycle.
C31_DownLinkRetriedNextCycle ==
    /\ [][(LinkVisitEnds /\ ~link_up[CurConn.mac]) =>
             pa_connects'[CurConn.mac] = pa_connects[CurConn.mac] + 1]_vars
    /\ []((pa_pc = "done" /\ cycle > 0) =>
             \A i \in DOMAIN _connections :
                LET keys == ConnKeys(_connections[i])
                    calls == pa_connects[_connections[i].mac]
                IN  /\ (\A k \in keys : prev_outcome[k] = "unreachable")
                          => calls = 1
                    /\ \/ /\ calls = 1
                          /\ \A k \in keys : outcome[k].kind = "unreachable"
                       \/ \A k \in keys : outcome[k].kind \in Polled)

\* The second cycle has ended: a hub link that the first cycle found
\* unreachable was reconnected by one connect() and both its devices gave
\* data.
C31_Witness ==
    /\ pa_pc = "done"
    /\ cycle = 2
    /\ \E i \in DOMAIN _connections :
          /\ Len(_connections[i].device_configs) = 2
          /\ pa_connects[_connections[i].mac] = 1
          /\ \A k \in ConnKeys(_connections[i]) :
                /\ prev_outcome[k] = "unreachable"
                /\ outcome[k].kind = "ok"


\* ------------------------------------------------------------- SpecConnLive
\* The steps of caller t that a timer or the caller itself brings about:
\* the backoff sleep and the resolving of the device, client.connect() under
\* BleakClient(timeout=CONNECTION_TIMEOUT), wait_for under
\* NOTIFICATION_TIMEOUT, the settle delay, and the returns.
ConnTimedStep(t) ==
    \/ ReadAfterConnect(t)
    \/ ConnectCallReturn(t)
    \/ ConnectAttempt(t)
    \/ ConnectOpen(t)
    \/ ReadWake(t)
    \/ ReadTimeout(t)
    \/ ReadSettle(t)
    \/ ReadReturn(t)

\* The timers expire, a caller runs when it can and gets the lock when it is
\* free again and again; nothing makes start_notify, disconnect or
\* write_gatt_char complete, which are awaited without a timeout.
ConnFairness ==
    \A t \in Tasks :
        /\ WF_vars(ConnTimedStep(t))
        /\ SF_vars(ReadAcquire(t))

SpecConnLive == ConnSpecInit /\ [][ConnNext]_vars /\ ConnFairness

\* ------------------------------------------------------------------ claim C32
\* C32: every poll_all cycle terminates and never raises, each wait in it
\* having an explicit bound: every connect() and read_registers call that
\* the cycle awaits returns, a connect() after at most three attempts; a link
\* gets at most one reconnect call from poll_all per cycle and none after a
\* failed one.
C32_PollAllTerminates ==
    /\ \A t \in Tasks : (task[t].pc # "idle") ~> (task[t].pc = "idle")
    /\ [](\A t \in Tasks : task[t].attempts <= CONNECT_ATTEMPTS)

\* The counting part of C32 in poll_all: at most one connect() per link and
\* cycle, and after a failed one the link's devices are not polled.
C32_OneReconnectPerLink ==
    /\ \A m \in DOMAIN pa_connects : pa_connects[m] <= 1
    /\ \A i \in DOMAIN _connections :
          \A k \in ConnKeys(_connections[i]) :
             outcome[k].kind = "unreachable" =>
                \A j \in ConnKeys(_connections[i]) :
                   outcome[j].kind = "unreachable"

\* The waits of C32 that have a timer: a caller leaves the attempt loop's
\* sleep, client.connect(), the response wait and the settle delay.
C32_TimedWaitsEnd ==
    \A t \in Tasks :
        (task[t].pc \in {"wait", "settle", "done"}
            \/ task[t].cpc \in {"attempt", "opening", "returned"})
        ~> (task[t].pc \in {"idle", "write"}
              \/ task[t].cpc \in {"subscribing", "cleanup"})


InRequest(t) == task[t].pc \in {"write", "wait", "settle"}

\* Caller t clears the buffer for its request in this step.
ClearsBuffer(t) ==
    /\ task[t].pc \in {"acquire", "connect"}
    /\ task'[t].pc \in {"write", "done"}

\* C34: whenever read_registers returns a value other than None, that value
\* has at least 5 bytes and is the concatenation, in arrival order, of all
\* the notification fragments received between the request's buffer clear
\* and the end of its settle delay, those arriving during the settle delay
\* included: the buffer changes only by a fragment appended to it or by a
\* caller's clear, no clear happens while a request is between its own clear
\* and the end of its settle delay, and what is returned is the buffer at
\* the end of the settle delay.
C34_ResponseIsAllFragments ==
    [][/\ (_notification_data' # _notification_data) =>
             \/ /\ wire # <<>>
                /\ _notification_data' = Append(_notification_data, Head(wire))
             \/ /\ _notification_data' = <<>>
                /\ \E t \in Tasks : ClearsBuffer(t)
                /\ \A t \in Tasks : ~InRequest(t)
       /\ \A t \in Tasks :
             (task[t].pc # "done" /\ task'[t].pc = "done"
                 /\ ~task'[t].ret.none) =>
                /\ task[t].pc = "settle"
                /\ task'[t].ret.bytes = _notification_data
                /\ ByteLen(task'[t].ret.bytes) >= MIN_RESPONSE_LEN]_vars

\* A read has returned a response made of more than one fragment.
C34_Witness ==
    \E t \in Tasks :
        /\ task[t].pc = "done"
        /\ ~task[t].ret.none
        /\ Len(task[t].ret.bytes) >= 2
        /\ ByteLen(task[t].ret.bytes) >= MIN_RESPONSE_LEN


\* ------------------------------------------------------------------ claim C35
\* The buffer holds an error frame: at least 5 bytes, the function byte with
\* its high bit set.
ErrorBuffered(data) == Len(data) >= 5 /\ (data[2] \div 128) % 2 = 1

\* The buffer holds the (3 + 2 * words + 2) bytes of a full frame.
FullBuffered(data, words) == Len(data) >= 3 + 2 * words + 2

\* C35: each detector probe clears its buffer before sending, then
\* accumulates notification fragments, and returns in exactly one of three
\* ways: the first 5 bytes as soon as at least 5 bytes are buffered and the
\* function byte has its high bit set; the first (3 + 2 * words + 2) bytes as
\* soon as that many are buffered; None when the per-probe timeout expires or
\* the write fails. It never returns a partial frame.
C35_ProbeEndsThreeWays ==
    [][LET words == Probes[det_probe].words
           ended == Len(det_outcomes') > Len(det_outcomes)
           resp == det_outcomes'[Len(det_outcomes')].resp
       IN  /\ (Len(det_sent') > Len(det_sent)) =>
                 (det_data' = <<>> /\ ~det_event')
           /\ (det_data' # det_data /\ Len(det_sent') = Len(det_sent)) =>
                 \E fragment \in DetectFragments :
                    det_data' = det_data \o fragment
           /\ ended =>
                 \/ /\ ~resp.none
                    /\ det_pc = "wait"
                    /\ ErrorBuffered(det_data)
                    /\ resp.bytes = SubSeq(det_data, 1, 5)
                 \/ /\ ~resp.none
                    /\ det_pc = "wait"
                    /\ ~ErrorBuffered(det_data)
                    /\ FullBuffered(det_data, words)
                    /\ resp.bytes = SubSeq(det_data, 1, 3 + 2 * words + 2)
                 \/ /\ resp.none
                    /\ det_pc \in {"write", "wait"}
           /\ (det_pc = "wait" /\ det_pc' = "wait" /\ det_event /\ ~det_event') =>
                 /\ ~ErrorBuffered(det_data)
                 /\ ~FullBuffered(det_data, words)
                 /\ det_data' = det_data]_vars

\* The first probe has returned the controller's answer, put together from
\* the two fragments it came in.
C35_Witness ==
    /\ Len(det_outcomes) = 1
    /\ det_outcomes[1].resp = BytesRet(DetectFrame(255, 8))
    /\ det_data = DetectFrame(255, 8)
    /\ det_notes = 2


\* ================================== PersistentBLEConnection.disconnect
\* disconnect() is called: self._connected = False; with a session handle,
\* stop_notify is awaited, without one the call returns.
DisconnectCall(t) ==
    /\ task[t].pc = "idle"
    /\ _connected' = FALSE
    /\ task' = [task EXCEPT ![t] =
                  [IdleTask EXCEPT !.pc = "xdisconnect",
                                   !.cpc = IF client # None THEN "unsubscribing"
                                           ELSE "returned",
                                   !.exit = IF client # None THEN "none"
                                            ELSE "return"]]
    /\ UNCHANGED <<client, client_up, notifying, _notify_char, _write_char,
                   bufVars, _lock, _loop, wire, next_req, connect_calls>>
    /\ UNCHANGED notConnVars

\* The same step without the `except Exception` around stop_notify.
DisconnectUnsubscribePropagates(t) ==
    /\ task[t].pc = "xdisconnect"
    /\ task[t].cpc = "unsubscribing"
    /\ \/ /\ client # None
          /\ client_up
          /\ notifying' = FALSE
          /\ task' = [task EXCEPT ![t] = [@ EXCEPT !.cpc = "closing"]]
       \/ /\ notifying' = notifying
          /\ task' = [task EXCEPT ![t] =
                        [@ EXCEPT !.cpc = "returned", !.exit = "raise"]]
    /\ UNCHANGED <<client, client_up, _connected, _notify_char, _write_char,
                   bufVars, _lock, _loop, wire, next_req, connect_calls>>
    /\ UNCHANGED notConnVars

\* `await self.client.stop_notify(...)` completes or raises (also when the
\* handle is gone by now); either way client.disconnect() is awaited next.
DisconnectUnsubscribe(t) ==
    /\ task[t].pc = "xdisconnect"
    /\ task[t].cpc = "unsubscribing"
    /\ \/ /\ client # None
          /\ client_up
          /\ notifying' = FALSE
       \/ notifying' = notifying
    /\ task' = [task EXCEPT ![t] = [@ EXCEPT !.cpc = "closing"]]
    /\ UNCHANGED <<client, client_up, _connected, _notify_char, _write_char,
                   bufVars, _lock, _loop, wire, next_req, connect_calls>>
    /\ UNCHANGED notConnVars

\* `await self.client.disconnect()` completes, the session reporting the
\* disconnect if it was up, or raises; then self.client = None and the call
\* returns.
DisconnectClose(t) ==
    /\ task[t].pc = "xdisconnect"
    /\ task[t].cpc = "closing"
    /\ \/ /\ client # None
          /\ _connected' = IF client_up THEN FALSE ELSE _connected
       \/ _connected' = _connected
    /\ client' = None
    /\ client_up' = FALSE
    /\ notifying' = FALSE
    /\ wire' = <<>>
    /\ task' = [task EXCEPT ![t] =
                  [@ EXCEPT !.cpc = "returned", !.exit = "return"]]
    /\ UNCHANGED <<_notify_char, _write_char, bufVars, _lock, _loop, next_req,
                   connect_calls>>
    /\ UNCHANGED notConnVars

\* disconnect() has returned to its caller.
DisconnectReturn(t) ==
    /\ task[t].pc = "xdisconnect"
    /\ task[t].cpc = "returned"
    /\ task' = [task EXCEPT ![t] = IdleTask]
    /\ UNCHANGED <<sessVars, bufVars, _lock, _loop, wire, next_req, connect_calls>>
    /\ UNCHANGED notConnVars

\* ----------------------------------------------------------- SpecDisconnect
\* The connection of SpecConn with callers that also call disconnect().
DisconnectNext ==
    \/ ConnNext
    \/ \E t \in Tasks : DisconnectCall(t)
    \/ \E t \in Tasks : DisconnectUnsubscribe(t)
    \/ \E t \in Tasks : DisconnectClose(t)
    \/ \E t \in Tasks : DisconnectReturn(t)

SpecDisconnect == ConnSpecInit /\ [][DisconnectNext]_vars

\* ------------------------------------------------------------------ claim C36
\* disconnect() of caller t ends in this step.
DisconnectEnds(t) ==
    /\ task[t].cpc # "returned"
    /\ task'[t].pc = "xdisconnect"
    /\ task'[t].cpc = "returned"

\* C36: after disconnect() returns the connection is not connected and
\* holds no session handle, also when the unsubscribe step or the session
\* close raises; disconnect() never raises; called on a connection without
\* a session it only clears the connected flag.
C36_DisconnectAlwaysClears ==
    [][\A t \in Tasks :
          DisconnectEnds(t) =>
             /\ task'[t].exit = "return"
             /\ client' = None
             /\ ~is_connected'
             /\ (task[t].pc = "idle") =>
                   /\ client = None
                   /\ ~_connected'
                   /\ UNCHANGED <<client, client_up, notifying, _notify_char,
                                   _write_char, bufVars, _lock, wire>>]_vars

\* A disconnect() has returned on a connection that had a session.
C36_Witness ==
    \E t \in Tasks :
        /\ task[t].pc = "xdisconnect"
        /\ task[t].cpc = "returned"
        /\ task[t].exit = "return"
        /\ task[t].attempts = 0
        /\ client = None
        /\ _notify_char # None


\* ------------------------------------------------------------------ claim C37
\* The read of this step returned bytes whose unit-id byte is not the unit
\* id of the polled device.
ForeignResponse ==
    /\ reads' # reads
    /\ "raised" \notin DOMAIN pd_response'
    /\ ~pd_response'.none
    /\ pd_response'.bytes # <<>>
    /\ pd_response'.bytes[1] # pd_config.device_id

\* C37: poll_device merges into the device's telemetry only fields parsed
\* from responses whose unit-id byte equals the device's unit id; a response
\* carrying another unit id is rejected and leaves the telemetry, and the
\* result returned for the health accounting, as they were without it.
C37_OnlyOwnUnitMerged ==
    [][/\ all_data' # all_data =>
             /\ ~ForeignResponse
             /\ ~pd_response'.none
             /\ pd_response'.bytes[1] = pd_config.device_id
       /\ ForeignResponse =>
             /\ all_data' = all_data
             /\ parses' = Append(parses, [outcome |-> "invalid",
                                          fields |-> EmptyDict])
             /\ pd_pc' = "done" => pd_ret' = Finish(all_data, pd_config)]_vars

\* The last read of a poll returned a well-formed response of another unit
\* of the link; the fields parsed before it are what poll_device returned.
C37_Witness ==
    /\ pd_pc = "done"
    /\ pd_ret.kind = "return"
    /\ ~pd_response.none
    /\ pd_response.bytes = Seal(Payload(OtherUnit(pd_config), 3,
                                        Fill(MaxPollData, 1)))
    /\ parses[Len(parses)].outcome = "invalid"
    /\ all_data # EmptyDict
    /\ pd_ret.value = Tagged(all_data, pd_config)


\* ------------------------------------------------------------------ claim C38
\* The value lies within [min, max] of the field.
WithinRange(key, v) ==
    /\ key \in DOMAIN _limits
    /\ _limits[key].min_val <= v
    /\ v <= _limits[key].max_val

\* The items of the last call's output that differ from its input.
Substituted ==
    IF dv_return = Pending \/ dv_return.kind # "return" THEN {}
    ELSE {i \in DOMAIN dv_data : dv_return.value.validated[i] # dv_data[i]}

\* C38: in every state a controller validator reaches by validate calls,
\* each stored last-known-good value lies within [min, max] of its field,
\* and so does every value substituted into the output for a rejected
\* reading.
C38_LastGoodWithinRange ==
    /\ \A key \in DOMAIN _last_good_values :
          WithinRange(key, _last_good_values[key])
    /\ \A i \in Substituted :
          LET out == dv_return.value.validated[i] IN
          /\ out.key = dv_data[i].key
          /\ out.value.kind = "num"
          /\ WithinRange(out.key, out.value.v)

\* A controller validator holds last good values of two fields and has
\* just substituted one of them for a reading above the maximum.
C38_Witness ==
    /\ dv_device_type = CONTROLLER
    /\ Cardinality(DOMAIN _last_good_values) = 2
    /\ \E i \in Substituted :
          /\ dv_data[i].value.kind = "num"
          /\ dv_data[i].value.v > _limits[dv_data[i].key].max_val
          /\ dv_return.value.validated[i].value
                = Num(_last_good_values[dv_data[i].key])


\* ------------------------------------------------------ SpecValidatorLive
\* validate_data called once more on the telemetry of the call before it,
\* as happens every cycle while the device reports the same readings. The
\* two histories kept for the claims (dv_calls, rejected) cover the first
\* MaxValidates calls only.
ValidateAgain ==
    /\ dv_calls = MaxValidates
    /\ IF ~Truthy(_limits)
       THEN /\ dv_return' = Return([validated |-> dv_data, rejections |-> <<>>])
            /\ UNCHANGED <<_last_good_values, _rejection_log>>
       ELSE LET st == validate_loop(_limits, dv_data, 1,
                          [validated |-> dv_data, rejections |-> <<>>,
                           last_good |-> _last_good_values,
                           log |-> _rejection_log])
            IN  /\ dv_return' = Return([validated |-> st.validated,
                                        rejections |-> st.rejections])
                /\ _last_good_values' = st.last_good
                /\ _rejection_log' = st.log
    /\ UNCHANGED <<dv_data, dv_calls, rejected, dv_device_type, _limits,
                   dv_system_voltage>>
    /\ UNCHANGED notValidatorVars

\* The telemetry of the cycles before: one battery voltage, near or far
\* from the one before it, within the limits of every system voltage or
\* above those of a 12 V system.
VoltageData == {<<KV("battery_voltage", Num(n))>> : n \in {12, 15, 18, 25}}

\* validate_data on the telemetry of one of the first cycles.
ValidateVoltage ==
    /\ dv_calls < MaxValidates
    /\ \E data \in VoltageData : Validate(data)

ValidatorLiveNext ==
    \/ ValidateVoltage
    \/ ValidateAgain

\* The coordinator validates the telemetry of every cycle.
ValidatorFairness == WF_vars(ValidateAgain)

SpecValidatorLive ==
    ValidatorInit /\ [][ValidatorLiveNext]_vars /\ ValidatorFairness

\* ------------------------------------------------------------------ claim C39
\* The readings of the catalog fields presented in every cycle from now on.
SteadyReadings ==
    IF dv_calls = MaxValidates
    THEN {dv_data[i] : i \in {j \in DOMAIN dv_data :
                                 /\ dv_data[j].key \in DOMAIN _limits
                                 /\ dv_data[j].value.kind = "num"}}
    ELSE {}

\* C39: the validator does not reject an in-range reading forever: a catalog
\* field with a last-known-good value that is presented with the same
\* in-range value in every following cycle eventually has that value as its
\* last-known-good value.
C39_InRangeEventuallyAccepted ==
    \A item \in {data[1] : data \in VoltageData} :
        (/\ item \in SteadyReadings
         /\ item.key \in DOMAIN _last_good_values
         /\ WithinRange(item.key, item.value.v))
        ~> (/\ item.key \in DOMAIN _last_good_values
            /\ _last_good_values[item.key] = item.value.v)


\* ==================================================== BLEUpdateCoordinator
\* Largest number of updates of the coordinator.
MaxUpdates == 3

\* The devices of the coordinator's manager, in the order poll_all visits
\* them: two controllers behind one address and a battery of its own.
CoordinatorConfigs ==
    <<DeviceConfig("Rover", "AA:BB", CONTROLLER, 1),
      DeviceConfig("Rover 2", "AA:BB", CONTROLLER, 2),
      DeviceConfig("Battery", "AA:CC", BATTERY, 247)>>

\* What poll_device returned for a device: the tags of Tagged and the
\* telemetry as items.
RawData(config, items) ==
    [__device |-> config.name, __device_type |-> config.device_type,
     __mac_address |-> config.mac_address, items |-> items]

\* The non-empty mappings poll_all can return: for each device that
\* answered, one battery voltage.
PollAllResults ==
    LET configs == {CoordinatorConfigs[i] : i \in DOMAIN CoordinatorConfigs}
        keys == {device_key(c.mac_address, c) : c \in configs}
        config(k) == CHOOSE c \in configs : device_key(c.mac_address, c) = k
        data(k) == {RawData(config(k), <<KV("battery_voltage", Num(v))>>) :
                       v \in {12, 18}}
    IN  UNION {{raw \in [present -> UNION {data(k) : k \in present}] :
                   \A k \in present : raw[k] \in data(k)} :
               present \in (SUBSET keys) \ {{}}}

\* f"ble_{mac_address}".
entry_id(mac_address) == <<"ble", mac_address>>

\* str.title() of a device type.
title(device_type) ==
    CASE device_type = "controller" -> "Controller"
      [] device_type = "battery" -> "Battery"
      [] device_type = "inverter" -> "Inverter"

\* BLE_TO_HA_KEY_MAP.get(ble_key, ble_key); the map is defined outside the
\* modules modelled here, and the key it gives is kept symbolic.
ha_key(ble_key) == <<"BLE_TO_HA_KEY_MAP.get", ble_key>>

\* DataValidatorManager.get_validator: the validator of the device, made
\* with the default system voltage when there is none.
get_validator(validators, device_name, device_type) ==
    LET key == <<device_name, device_type>> IN
    IF key \in DOMAIN validators THEN validators
    ELSE DictUpdate(validators,
             key :> [limits |-> init_limits(device_type, 12),
                     last_good |-> EmptyDict, log |-> <<>>])

\* DataValidatorManager.validate_device_data: the validators and the
\* validated items after it.
validate_device_data(validators, device_name, device_type, items) ==
    LET key == <<device_name, device_type>>
        made == get_validator(validators, device_name, device_type)
        v == made[key]
    IN  IF ~Truthy(v.limits)
        THEN [validators |-> made, validated |-> items]
        ELSE LET st == validate_loop(v.limits, items, 1,
                           [validated |-> items, rejections |-> <<>>,
                            last_good |-> v.last_good, log |-> v.log])
             IN  [validators |-> [made EXCEPT ![key] =
                                     [@ EXCEPT !.last_good = st.last_good,
                                               !.log = st.log]],
                  validated |-> st.validated]

\* The entry built for a device from its validated telemetry.
device_entry(raw_data, validated) ==
    [name |-> raw_data.__device,
     model |-> <<"Renogy", title(raw_data.__device_type)>>,
     firmware |-> "",
     serial |-> "",
     mac |-> raw_data.__mac_address,
     connection |-> "Bluetooth",
     data |-> [k \in {ha_key(validated[i].key) : i \in DOMAIN validated} |->
                 LET i == CHOOSE j \in DOMAIN validated :
                              ha_key(validated[j].key) = k
                 IN  <<validated[i].value, "">>]]

RECURSIVE update_loop(_, _, _)
\* `for _, raw_data in raw_results.items()`, from the i-th device of the
\* manager on: each result is validated and stored under f"ble_{mac}".
update_loop(raw, i, st) ==
    IF i > Len(CoordinatorConfigs) THEN st
    ELSE LET config == CoordinatorConfigs[i]
             key == device_key(config.mac_address, config)
         IN  IF key \notin DOMAIN raw
             THEN update_loop(raw, i + 1, st)
             ELSE LET raw_data == raw[key]
                      out == validate_device_data(st.validators,
                                 raw_data.__device, raw_data.__device_type,
                                 raw_data.items)
                  IN  update_loop(raw, i + 1,
                          [validators |-> out.validators,
                           data |-> DictUpdate(st.data,
                                       entry_id(raw_data.__mac_address) :>
                                           device_entry(raw_data,
                                                        out.validated))])

\* BLEUpdateCoordinator.__init__.
CoordinatorInit ==
    /\ HealthInit
    /\ ConnInit
    /\ PollIdle
    /\ PureIdle
    /\ ValidatorIdle
    /\ DetectIdle
    /\ ConnectAllIdle
    /\ device_configs = <<>>
    /\ MgrUnbuilt
    /\ _data = EmptyDict
    /\ _validators = EmptyDict
    /\ raw_results = Pending
    /\ co_return = Pending
    /\ co_updates = 0

\* _async_update_data when poll_all raises: UpdateFailed.
UpdatePollRaises ==
    /\ co_updates < MaxUpdates
    /\ raw_results' = Raise("Exception")
    /\ co_return' = Raise("UpdateFailed")
    /\ co_updates' = co_updates + 1
    /\ UNCHANGED <<_data, _validators>>
    /\ UNCHANGED notCoordinatorVars

\* _async_update_data when poll_all returns {}: the data held is returned,
\* UpdateFailed without any.
UpdatePollEmpty ==
    /\ co_updates < MaxUpdates
    /\ raw_results' = Return(EmptyDict)
    /\ co_return' = IF Truthy(_data) THEN Return(_data)
                    ELSE Raise("UpdateFailed")
    /\ co_updates' = co_updates + 1
    /\ UNCHANGED <<_data, _validators>>
    /\ UNCHANGED notCoordinatorVars

\* _async_update_data when poll_all returns results: each is validated and
\* stored, and the data held is returned.
UpdatePollData ==
    /\ co_updates < MaxUpdates
    /\ \E raw \in PollAllResults :
          LET st == update_loop(raw, 1,
                        [validators |-> _validators, data |-> _data])
          IN  /\ raw_results' = Return(raw)
              /\ _validators' = st.validators
              /\ _data' = st.data
              /\ co_return' = Return(st.data)
    /\ co_updates' = co_updates + 1
    /\ UNCHANGED notCoordinatorVars

CoordinatorNext ==
    \/ UpdatePollRaises
    \/ UpdatePollEmpty
    \/ UpdatePollData

SpecCoordinator == CoordinatorInit /\ [][CoordinatorNext]_vars


\* ------------------------------------------------------------------ claim C40
\* An update is made in this step.
Updated == co_updates' # co_updates

\* poll_all returned in this step, without a result for the device.
AbsentNow(config) ==
    /\ raw_results'.kind = "return"
    /\ device_key(config.mac_address, config) \notin DOMAIN raw_results'.value

\* The data holds an entry made from a result of the device.
HasEntry(config) ==
    /\ entry_id(config.mac_address) \in DOMAIN _data
    /\ _data[entry_id(config.mac_address)].name = config.name

C40_AbsentAddressKeepsEntry ==
    [][Updated =>
          /\ (raw_results' = Return(EmptyDict) /\ Truthy(_data)) =>
                 /\ co_return' = Return(_data)
                 /\ _data' = _data
          /\ (\/ raw_results' = Return(EmptyDict) /\ ~Truthy(_data)
              \/ raw_results'.kind = "raise") =>
                 /\ co_return'.kind = "raise"
                 /\ _data' = _data
          /\ raw_results'.kind = "return" =>
                 \A id \in DOMAIN _data :
                    (\A k \in DOMAIN raw_results'.value :
                        entry_id(raw_results'.value[k].__mac_address) # id) =>
                       /\ id \in DOMAIN _data'
                       /\ _data'[id] = _data[id]]_vars

====
